---- MODULE Spec2Model ----
(***************************************************************************)
(* Threads of Destiny: the game router (save slots, story steps), the user *)
(* router (high score) and the game page's phase state machine.            *)
(*                                                                         *)
(* Text is modelled by TLA+ strings, JSON text by the strings that         *)
(* JSON.stringify produces and JSON.parse reads, JavaScript values by      *)
(* tagged records.                                                         *)
(***************************************************************************)
EXTENDS Integers, Sequences, FiniteSets, Bags, TLC

(***************************************************************************)
(* JavaScript values                                                       *)
(***************************************************************************)
JUndef == [t |-> "undef"]
JNull == [t |-> "null"]
JBool(b) == [t |-> "bool", b |-> b]
JNum(n) == [t |-> "num", n |-> n]
JStr(s) == [t |-> "str", s |-> s]
JArr(a) == [t |-> "arr", a |-> a]
\* an object is its list of members, in insertion order
JObj(o) == [t |-> "obj", o |-> o]
Member(k, v) == [k |-> k, v |-> v]

\* obj.key: undefined when the member is absent (reading a property of
\* null or undefined throws: callers test IsNullish first)
GetProp(obj, key) ==
    IF obj.t = "obj" /\ \E i \in 1..Len(obj.o) : obj.o[i].k = key
    THEN LET i == CHOOSE j \in 1..Len(obj.o) :
                      /\ obj.o[j].k = key
                      /\ \A m \in (j+1)..Len(obj.o) : obj.o[m].k # key
         IN obj.o[i].v
    ELSE JUndef

\* 'key' in obj
HasProp(obj, key) == obj.t = "obj" /\ \E i \in 1..Len(obj.o) : obj.o[i].k = key

IsNullish(v) == v.t \in {"undef", "null"}

\* a {id, text} object as the client and the routers build it
Choice(id, text) == JObj(<<Member("id", JNum(id)), Member("text", JStr(text))>>)

(***************************************************************************)
(* Strings                                                                 *)
(***************************************************************************)
UpperChars == "ABCDEFGHIJKLMNOPQRSTUVWXYZ"
LowerChars == "abcdefghijklmnopqrstuvwxyz"

RECURSIVE toLowerCase(_)
toLowerCase(s) ==
    LET LowerChar(c) ==
            IF \E i \in 1..Len(UpperChars) : SubSeq(UpperChars, i, i) = c
            THEN LET i == CHOOSE j \in 1..Len(UpperChars) : SubSeq(UpperChars, j, j) = c
                 IN SubSeq(LowerChars, i, i)
            ELSE c
    IN IF s = "" THEN "" ELSE LowerChar(Head(s)) \o toLowerCase(Tail(s))

\* s.includes(sub)
RECURSIVE includes(_, _)
includes(s, sub) ==
    IF Len(s) < Len(sub) THEN FALSE
    ELSE IF SubSeq(s, 1, Len(sub)) = sub THEN TRUE
    ELSE includes(Tail(s), sub)

\* s.trim() is non-empty
RECURSIVE TrimNonEmpty(_)
TrimNonEmpty(s) ==
    IF s = "" THEN FALSE
    ELSE IF Head(s) = " " THEN TrimNonEmpty(Tail(s))
    ELSE TRUE

Digits == "0123456789"
IsDigit(c) == \E i \in 1..10 : SubSeq(Digits, i, i) = c

RECURSIVE NatToStr(_)
NatToStr(n) ==
    IF n < 10 THEN SubSeq(Digits, n + 1, n + 1)
    ELSE NatToStr(n \div 10) \o SubSeq(Digits, (n % 10) + 1, (n % 10) + 1)

NumToStr(n) == IF n < 0 THEN "-" \o NatToStr(-n) ELSE NatToStr(n)

(***************************************************************************)
(* JSON.stringify of a list of {id, text} objects                          *)
(***************************************************************************)
\* a text passed on as it is, with no escapes
QuoteCharsRaw(s) == s

RECURSIVE QuoteChars(_)
QuoteChars(s) ==
    IF s = "" THEN ""
    ELSE LET c == Head(s)
         IN (IF c = "\"" THEN "\\\""
             ELSE IF c = "\\" THEN "\\\\"
             ELSE IF c = "\n" THEN "\\n"
             ELSE c) \o QuoteChars(Tail(s))

Quote(s) == "\"" \o QuoteChars(s) \o "\""

RECURSIVE StringifyValue(_)
RECURSIVE StringifyItems(_)
RECURSIVE StringifyMembers(_)
StringifyValue(v) ==
    CASE v.t = "num" -> NumToStr(v.n)
      [] v.t = "str" -> Quote(v.s)
      [] v.t = "bool" -> (IF v.b THEN "true" ELSE "false")
      [] v.t = "arr" -> "[" \o StringifyItems(v.a) \o "]"
      [] v.t = "obj" -> "{" \o StringifyMembers(v.o) \o "}"
      [] OTHER -> "null"

StringifyItems(a) ==
    IF a = <<>> THEN ""
    ELSE StringifyValue(Head(a))
         \o (IF Len(a) > 1 THEN "," \o StringifyItems(Tail(a)) ELSE "")

StringifyMembers(o) ==
    IF o = <<>> THEN ""
    ELSE Quote(Head(o).k) \o ":" \o StringifyValue(Head(o).v)
         \o (IF Len(o) > 1 THEN "," \o StringifyMembers(Tail(o)) ELSE "")

JSONStringify(choices) == StringifyValue(JArr(choices))

(***************************************************************************)
(* JSON.parse: a recursive-descent reader of the text; ok = FALSE is the   *)
(* SyntaxError it throws                                                   *)
(***************************************************************************)
ParseFail == [ok |-> FALSE, v |-> JUndef, rest |-> ""]
ParseOk(v, rest) == [ok |-> TRUE, v |-> v, rest |-> rest]

RECURSIVE SkipWs(_)
SkipWs(s) == IF s # "" /\ Head(s) = " " THEN SkipWs(Tail(s)) ELSE s

StartsWith(s, p) == Len(s) >= Len(p) /\ SubSeq(s, 1, Len(p)) = p
Drop(s, n) == SubSeq(s, n + 1, Len(s))

RECURSIVE ParseDigits(_, _)
ParseDigits(s, acc) ==
    IF s # "" /\ IsDigit(Head(s))
    THEN ParseDigits(Tail(s),
                     acc * 10 + (CHOOSE i \in 1..10 : SubSeq(Digits, i, i) = Head(s)) - 1)
    ELSE ParseOk(JNum(acc), s)

ParseNumber(s) ==
    IF StartsWith(s, "-")
    THEN IF Len(s) > 1 /\ IsDigit(SubSeq(s, 2, 2))
         THEN LET r == ParseDigits(Tail(s), 0) IN ParseOk(JNum(-(r.v.n)), r.rest)
         ELSE ParseFail
    ELSE ParseDigits(s, 0)

\* after the opening quote
RECURSIVE ParseStringBody(_, _)
ParseStringBody(s, acc) ==
    IF s = "" THEN ParseFail
    ELSE LET c == Head(s)
         IN IF c = "\"" THEN ParseOk(JStr(acc), Tail(s))
            ELSE IF c = "\\"
                 THEN IF Len(s) > 1 /\ SubSeq(s, 2, 2) \in {"\"", "\\"}
                      THEN ParseStringBody(Drop(s, 2), acc \o SubSeq(s, 2, 2))
                      ELSE IF Len(s) > 1 /\ SubSeq(s, 2, 2) = "n"
                      THEN ParseStringBody(Drop(s, 2), acc \o "\n")
                      ELSE ParseFail
                 ELSE IF c = "\n" THEN ParseFail
                 ELSE ParseStringBody(Tail(s), acc \o c)

RECURSIVE ParseValue(_)
RECURSIVE ParseItems(_, _)
RECURSIVE ParseMembers(_, _)
ParseValue(s0) ==
    LET s == SkipWs(s0)
    IN IF s = "" THEN ParseFail
       ELSE LET c == Head(s)
            IN CASE c = "[" ->
                      (LET t == SkipWs(Tail(s))
                       IN IF StartsWith(t, "]") THEN ParseOk(JArr(<<>>), Tail(t))
                          ELSE ParseItems(t, <<>>))
                 [] c = "{" ->
                      (LET t == SkipWs(Tail(s))
                       IN IF StartsWith(t, "}") THEN ParseOk(JObj(<<>>), Tail(t))
                          ELSE ParseMembers(t, <<>>))
                 [] c = "\"" -> ParseStringBody(Tail(s), "")
                 [] c = "-" \/ IsDigit(c) -> ParseNumber(s)
                 [] StartsWith(s, "null") -> ParseOk(JNull, Drop(s, 4))
                 [] StartsWith(s, "true") -> ParseOk(JBool(TRUE), Drop(s, 4))
                 [] StartsWith(s, "false") -> ParseOk(JBool(FALSE), Drop(s, 5))
                 [] OTHER -> ParseFail

\* the items of an array, after "[" or ","
ParseItems(s, acc) ==
    LET r == ParseValue(s)
    IN IF ~r.ok THEN ParseFail
       ELSE LET t == SkipWs(r.rest)
            IN IF StartsWith(t, ",") THEN ParseItems(Tail(t), Append(acc, r.v))
               ELSE IF StartsWith(t, "]") THEN ParseOk(JArr(Append(acc, r.v)), Tail(t))
               ELSE ParseFail

\* the members of an object, after "{" or ","
ParseMembers(s0, acc) ==
    LET s == SkipWs(s0)
    IN IF ~StartsWith(s, "\"") THEN ParseFail
       ELSE LET k == ParseStringBody(Tail(s), "")
            IN IF ~k.ok THEN ParseFail
               ELSE LET t == SkipWs(k.rest)
                    IN IF ~StartsWith(t, ":") THEN ParseFail
                       ELSE LET r == ParseValue(Tail(t))
                            IN IF ~r.ok THEN ParseFail
                               ELSE LET u == SkipWs(r.rest)
                                        m == Append(acc, Member(k.v.s, r.v))
                                    IN IF StartsWith(u, ",") THEN ParseMembers(Tail(u), m)
                                       ELSE IF StartsWith(u, "}") THEN ParseOk(JObj(m), Tail(u))
                                       ELSE ParseFail

JSONParse(text) ==
    LET r == ParseValue(text)
    IN IF r.ok /\ SkipWs(r.rest) = "" THEN [ok |-> TRUE, v |-> r.v]
       ELSE [ok |-> FALSE, v |-> JUndef]

(***************************************************************************)
(* Pools the inputs are drawn from                                         *)
(***************************************************************************)
Null == "<null>"
Undefined == "<undefined>"
NoSession == "<no session>"
Users == {"u1", "u2"}
\* who calls: a signed-in user, or nobody
Sessions == {"u1", NoSession}
SlotNumbers == {1, 2, 3}

Themes == {"space"}
SpriteDescriptions == {"knight"}
ImageUrls == {"https://img/1"}

\* choice lists the text generator may send and the client may hold
GoChoices == <<Choice(1, "Go north"), Choice(2, "Hide")>>
OverChoices == <<Choice(1, "Game Over"), Choice(2, "GAME OVER"), Choice(3, "game over!")>>

StoryReply(story, choices, bg) ==
    JObj(<<Member("story", story), Member("choices", choices),
           Member("backgroundDescription", bg)>>)

\* what the text generator may answer: the message content, or no content
GenContents ==
    { StringifyValue(StoryReply(JStr("S1"), JArr(GoChoices), JStr("cave"))),
      StringifyValue(StoryReply(JStr("S2"), JArr(OverChoices), JStr("grave"))),
      StringifyValue(StoryReply(JStr("S3"), JArr(<<Choice(1, "Game Over"), Choice(2, "Run")>>), JStr("cave"))),
      StringifyValue(StoryReply(JStr("S4"),
                                JArr(<<Choice(7, "Climb"), Choice(8, "Swim"),
                                       Choice(9, "game over"), Choice(10, "Wait")>>),
                                JStr("sea"))),
      StringifyValue(StoryReply(JStr("S5"), JArr(<<>>), JStr("void"))),
      StringifyValue(JObj(<<Member("choices", JArr(GoChoices)),
                            Member("backgroundDescription", JStr("cave"))>>)),
      StringifyValue(JObj(<<Member("story", JStr("S6")), Member("choices", JArr(OverChoices))>>)),
      StringifyValue(StoryReply(JStr("S7"),
                                JArr(<<JObj(<<Member("id", JStr("1")), Member("text", JStr("Go"))>>)>>),
                                JStr("cave"))),
      StringifyValue(StoryReply(JStr("S8"),
                                JArr(<<Choice(1, "Run"), JObj(<<Member("id", JNum(2))>>)>>),
                                JStr("cave"))),
      StringifyValue(StoryReply(JStr("S9"), JStr("game over"), JStr("cave"))),
      "[1]", "not json", "", Null }

\* the text generator: it throws (network, timeout, rejected credential) or
\* answers with a content
GenOutcomes == {[threw |-> TRUE, content |-> Null]}
               \cup {[threw |-> FALSE, content |-> c] : c \in GenContents}

\* recorded for a call in which the text generator was not asked
NoGen == [threw |-> FALSE, content |-> Undefined]

\* the image generator: it fails (it throws, or answers without a url, which
\* throws inside generateImageWithAI), or gives a url
ImageOutcomes == {"throws"} \cup ImageUrls

(***************************************************************************)
(* The story helpers of the game router                                    *)
(***************************************************************************)
\* s.replace(/[^a-z0-9]/gi, '-')
RECURSIVE DashNonAlnum(_)
DashNonAlnum(s) ==
    LET IsAlnum(c) ==
            \/ IsDigit(c)
            \/ \E i \in 1..Len(UpperChars) :
                   SubSeq(UpperChars, i, i) = c \/ SubSeq(LowerChars, i, i) = c
    IN IF s = "" THEN ""
       ELSE (IF IsAlnum(Head(s)) THEN Head(s) ELSE "-") \o DashNonAlnum(Tail(s))

\* generateImageWithAI for a string prompt
generateImageWithAI(prompt, hasKey, outcome) ==
    IF ~hasKey
    THEN "/placeholder-img-"
         \o DashNonAlnum(SubSeq(prompt, 1, IF 15 < Len(prompt) THEN 15 ELSE Len(prompt)))
         \o ".png"
    ELSE IF outcome = "throws" THEN "/placeholder-ai-image.png"
    ELSE outcome

\* Array.isArray(v) && v.every(c => typeof c === 'object' && c !== null
\*   && 'id' in c && typeof c.id === 'number' && 'text' in c && typeof c.text === 'string')
IsChoiceArray(v) ==
    /\ v.t = "arr"
    /\ \A i \in 1..Len(v.a) :
           /\ v.a[i].t \in {"obj", "arr"}
           /\ HasProp(v.a[i], "id") /\ GetProp(v.a[i], "id").t = "num"
           /\ HasProp(v.a[i], "text") /\ GetProp(v.a[i], "text").t = "str"

checkIfGameOverNoLength(choices) ==
    \A i \in 1..Len(choices) :
        includes(toLowerCase(GetProp(choices[i], "text").s), "game over")

\* checkIfGameOver, on a list of {id, text} objects
checkIfGameOver(choices) ==
    /\ Len(choices) > 0
    /\ \A i \in 1..Len(choices) :
           includes(toLowerCase(GetProp(choices[i], "text").s), "game over")

\* the shape test of generateStoryWithAI on the parsed reply
IsStoryShape(result) ==
    /\ result.t \in {"obj", "arr"}
    /\ HasProp(result, "story") /\ GetProp(result, "story").t = "str"
    /\ HasProp(result, "choices") /\ IsChoiceArray(GetProp(result, "choices"))
    /\ HasProp(result, "backgroundDescription")
    /\ GetProp(result, "backgroundDescription").t = "str"

\* the mock of generateStoryWithAI's catch block (no choice was given)
FallbackStory(theme, spriteDesc, choiceNum) ==
    [story |-> JStr("Starting the adventure in a " \o theme \o " world with a character like "
                    \o spriteDesc \o ". What is the next move? (Random choice: "
                    \o NumToStr(choiceNum) \o ")"),
     choices |-> JArr(<<Choice(1, "Option A (" \o NumToStr(choiceNum) \o ") for " \o theme),
                        Choice(2, "Option B (" \o NumToStr(choiceNum) \o ") for " \o theme),
                        Choice(3, "Option C (" \o NumToStr(choiceNum) \o ") for " \o theme)>>),
     backgroundDescription |-> JStr("A dynamic background representing the current state ("
                                    \o NumToStr(choiceNum) \o ") in the " \o theme \o " adventure."),
     isGameOver |-> FALSE]

\* generateStoryWithAI({theme, spriteDesc}): the reply, checked, or the mock
generateStoryWithAI(theme, spriteDesc, hasKey, gen, choiceNum) ==
    IF ~hasKey
    THEN \* the placeholder when no API key is configured
         [story |-> JStr("(Placeholder: API Key Missing) Setting the scene for the " \o theme \o "..."),
          choices |-> JArr(<<Choice(1, "Proceed"), Choice(2, "Look around")>>),
          backgroundDescription |-> JStr("A placeholder background for " \o theme),
          isGameOver |-> FALSE]
    ELSE IF gen.threw \/ gen.content \in {Null, ""} THEN FallbackStory(theme, spriteDesc, choiceNum)
    ELSE LET parsed == JSONParse(gen.content)
         IN IF parsed.ok /\ IsStoryShape(parsed.v)
            THEN [story |-> GetProp(parsed.v, "story"),
                  choices |-> GetProp(parsed.v, "choices"),
                  backgroundDescription |-> GetProp(parsed.v, "backgroundDescription"),
                  isGameOver |-> checkIfGameOver(GetProp(parsed.v, "choices").a)]
            ELSE FallbackStory(theme, spriteDesc, choiceNum)

(***************************************************************************)
(* startGame and makeChoice: what the procedure answers, given the session, *)
(* the input and what the generators and Math.random do                    *)
(***************************************************************************)
\* isLoggedIn ? undefined : "You are not logged in. ..."
LoginWarning(session) ==
    IF session # NoSession THEN Undefined
    ELSE "You are not logged in. Your game progress won't be saved."

\* what startGame answers
startGame(session, input, hasKey, gen, img, choiceNum) ==
    LET initialState == generateStoryWithAI(input.theme, input.spriteDescription,
                                            hasKey, gen, choiceNum)
        backgroundImageUrl ==
            generateImageWithAI(initialState.backgroundDescription.s, hasKey, img)
    IN [op |-> "startGame", outcome |-> "returned", session |-> session, input |-> input,
        state |-> [story |-> initialState.story,
                   choices |-> initialState.choices,
                   backgroundDescription |-> initialState.backgroundDescription],
        backgroundImageUrl |-> backgroundImageUrl,
        warning |-> LoginWarning(session),
        gameOver |-> initialState.isGameOver,
        gameOverReason |-> IF initialState.isGameOver
                           THEN "Your adventure ended before it could begin!"
                           ELSE Undefined,
        hasKey |-> hasKey, gen |-> IF hasKey THEN gen ELSE NoGen, isBlunder |-> FALSE,
        \* generateStoryWithAI returned the generator's reply (not a placeholder or mock)
        fromReply |-> /\ hasKey /\ ~gen.threw /\ gen.content \notin {Null, ""}
                      /\ JSONParse(gen.content).ok /\ IsStoryShape(JSONParse(gen.content).v),
        textCalls |-> IF hasKey THEN 1 ELSE 0,
        imageCalls |-> IF hasKey THEN 1 ELSE 0]

\* choices.every(choice => choice.text.toLowerCase().includes("game over")):
\* "true", "false", or "throw" when an element has no text string; every
\* stops at the first element that answers false
RECURSIVE EveryGameOver(_)
EveryGameOver(a) ==
    IF a = <<>> THEN "true"
    ELSE LET text == GetProp(Head(a), "text")
         IN IF text.t # "str" THEN "throw"
            ELSE IF includes(toLowerCase(text.s), "game over") THEN EveryGameOver(Tail(a))
            ELSE "false"

\* nextState.choices.length > 0 && nextState.choices.every(...) on the
\* unchecked reply of makeChoice
AllChoicesAreGameOver(nextState) ==
    LET choices == GetProp(nextState, "choices")
    IN CASE IsNullish(nextState) \/ IsNullish(choices) -> "throw"
         [] choices.t = "arr" -> (IF Len(choices.a) = 0 THEN "false" ELSE EveryGameOver(choices.a))
         [] choices.t = "str" -> (IF choices.s = "" THEN "false" ELSE "throw")
         [] choices.t = "obj" ->
              (IF GetProp(choices, "length").t = "num" /\ GetProp(choices, "length").n > 0
               THEN "throw" ELSE "false")
         [] OTHER -> "false"

GameOverChoices == <<Choice(1, "Game Over"), Choice(2, "Game Over"), Choice(3, "Game Over")>>

\* the catch block of makeChoice
MakeChoiceError(base, textCalls) ==
    [base EXCEPT !.isBlunder = FALSE] @@
    [state |-> [story |-> JStr("Game Over! An error occurred."),
                backgroundDescription |-> JStr("A dark and gloomy scene."),
                choices |-> JArr(GameOverChoices)],
     backgroundImageUrl |-> "",
     warning |-> "An error occurred. Your game progress won't be saved.",
     gameOver |-> TRUE,
     gameOverReason |-> "An error occurred. Please try again later.",
     fromReply |-> FALSE, textCalls |-> textCalls, imageCalls |-> 0]

\* a blunder that is rolled after the text generator was asked
MakeChoiceBlunderLate(base) == [MakeChoiceError(base, 1) EXCEPT !.isBlunder = TRUE]

\* if (isBlunder) { return ... } (lines 778-795)
MakeChoiceBlunder(base) ==
    [base EXCEPT !.gen = NoGen] @@
    [state |-> [story |-> JStr("Game Over! You made a fatal mistake."),
                backgroundDescription |-> JStr("A dark and gloomy scene."),
                choices |-> JArr(GameOverChoices)],
     backgroundImageUrl |-> "",
     warning |-> LoginWarning(base.session),
     gameOver |-> TRUE,
     gameOverReason |-> "You made a wrong choice and your adventure ended!",
     fromReply |-> FALSE, textCalls |-> 0, imageCalls |-> 0]

\* input.currentChoices.find(c => c.id === input.choiceId) finds a choice
SelectedChoiceFound(input) ==
    \E i \in 1..Len(input.currentChoices) :
        GetProp(input.currentChoices[i], "id") = JNum(input.choiceId)

\* what makeChoice does when the text generator gave nothing usable; without
\* a key the request is refused, which throws
GeneratorFailure(base) ==
    MakeChoiceError([base EXCEPT !.gen = IF base.hasKey THEN @
                                         ELSE [threw |-> TRUE, content |-> Null]], 1)

\* the prompt generateImageWithAI builds from nextState.backgroundDescription
BackgroundPrompt(v) ==
    CASE v.t = "str" -> v.s
      [] v.t = "undef" -> "undefined"
      [] OTHER -> StringifyValue(v)

\* what makeChoice answers
makeChoice(session, input, isBlunder, hasKey, gen, img) ==
    LET base == [op |-> "makeChoice", outcome |-> "returned", session |-> session,
                 input |-> input, hasKey |-> hasKey, gen |-> gen, isBlunder |-> isBlunder]
    IN \* an invalid choice: the throw is inside the try
       IF ~SelectedChoiceFound(input) THEN MakeChoiceError([base EXCEPT !.gen = NoGen], 0)
       ELSE IF isBlunder THEN MakeChoiceBlunder(base)
       ELSE IF ~hasKey \/ gen.threw \/ gen.content \in {Null, ""} THEN GeneratorFailure(base)
       ELSE LET parsed == JSONParse(gen.content)
                nextState == parsed.v
                over == AllChoicesAreGameOver(nextState)
            IN IF ~parsed.ok \/ over = "throw" THEN GeneratorFailure(base)
               ELSE base @@
                    [state |-> [story |-> GetProp(nextState, "story"),
                                choices |-> GetProp(nextState, "choices"),
                                backgroundDescription |->
                                    GetProp(nextState, "backgroundDescription")],
                     backgroundImageUrl |->
                         generateImageWithAI(
                             BackgroundPrompt(GetProp(nextState, "backgroundDescription")),
                             hasKey, img),
                     warning |-> LoginWarning(session),
                     gameOver |-> (over = "true"),
                     gameOverReason |-> IF over = "true"
                                        THEN "Your adventure has come to an end!"
                                        ELSE Undefined,
                     fromReply |-> TRUE, textCalls |-> 1, imageCalls |-> 1]

(***************************************************************************)
(* Bounds                                                                  *)
(***************************************************************************)
\* scores are capped: a save that would count past MaxScore is not taken
MaxScore == 2
\* the clock (seconds since the epoch) runs from 0 to MaxTime
MaxTime == 1
\* how many saveGameSlot calls may overlap
MaxCalls == 2
\* how many mutations and timers of the page may be in flight
MaxInFlight == 1
\* the transition timers that may wait at a time
MaxTimers == 1
\* how many rows the verification_token table may hold
MaxTokens == 2
CallIds == 1..MaxCalls

(***************************************************************************)
(* State                                                                   *)
(***************************************************************************)
VARIABLES
    gameSaves,   \* the game_save table: a bag of rows
    highScore,   \* the user table's highScore column, per user
    response,    \* the last procedure call that returned, and its answer
    calls,       \* the calls that overlap: where each one stands
    verificationTokens,  \* the verification_token table: a bag of rows
    \* the game page: useSession's status and the useState variables
    sessionStatus, gamePhase, saveSlots, currentSlot, spriteDescription, spriteUrl,
    gameTheme, gameState, backgroundImageUrl, gameScore, showChoiceCloud,
    transitioningToNextScene, slotToLoad,
    requests,      \* the mutations in flight
    timers,        \* the setTimeout callbacks that wait
    settled,       \* the saveGameSlot mutation that settled last
    terminalStep   \* the step of this playthrough that answered gameOver, if any

pageVars ==
    <<sessionStatus, gamePhase, saveSlots, currentSlot, spriteDescription, spriteUrl,
      gameTheme, gameState, backgroundImageUrl, gameScore, showChoiceCloud,
      transitioningToNextScene, slotToLoad, requests, timers, settled, terminalStep>>

(***************************************************************************)
(* The game_save table.  createdAt is written once and never read, and the *)
(* auto-increment id only tells rows apart: both are left out, and the     *)
(* table is the bag of its rows (two rows alike in every other column are  *)
(* two copies).                                                            *)
(***************************************************************************)
Max(S) == CHOOSE m \in S : \A e \in S : e <= m
Rows(table) == BagToSet(table)
\* Date.now() never runs backwards: the stamp of a write is not before the
\* stamp of any row
Stamps(table) ==
    (IF Rows(table) = {} THEN 0 ELSE Max({r.updatedAt : r \in Rows(table)}))..MaxTime

\* SELECT ... WHERE userId = u AND slotNumber = n
SlotRows(table, u, n) == {r \in Rows(table) : r.userId = u /\ r.slotNumber = n}
\* SELECT ... WHERE userId = u
UserRows(table, u) == {r \in Rows(table) : r.userId = u}
\* the orders ORDER BY may return a set of rows in (ties in any order)
OrderedBySlot(S) ==
    {f \in [1..Cardinality(S) -> S] :
        /\ \A i, j \in 1..Cardinality(S) : i # j => f[i] # f[j]
        /\ \A i, j \in 1..Cardinality(S) : i < j => f[i].slotNumber <= f[j].slotNumber}

OrderedByUpdatedAt(S) ==
    {f \in [1..Cardinality(S) -> S] :
        /\ \A i, j \in 1..Cardinality(S) : i # j => f[i] # f[j]
        /\ \A i, j \in 1..Cardinality(S) : i < j => f[i].updatedAt <= f[j].updatedAt}

\* x ?? null
OrNull(x) == IF x = Undefined THEN Null ELSE x
\* a nullable text is falsy when null or empty
Falsy(x) == x \in {Null, Undefined, ""}
\* score || 0, score ?? 0 (they differ on no number)
ScoreOrZero(score) == IF score.t = "num" THEN score.n ELSE 0

(***************************************************************************)
(* Reading the stored choices                                              *)
(***************************************************************************)
\* a reading that keeps any parsed array, without the test of its elements
ParsedChoicesUnchecked(currentChoices) ==
    IF Falsy(currentChoices) \/ ~TrimNonEmpty(currentChoices) THEN <<>>
    ELSE LET parsed == JSONParse(currentChoices)
         IN IF parsed.ok /\ parsed.v.t = "arr" THEN parsed.v.a ELSE <<>>

\* the choices a row's currentChoices text is read as: the parsed list when
\* it is JSON for an array of {id, text}, the empty list otherwise
ParsedChoices(currentChoices) ==
    IF Falsy(currentChoices) \/ ~TrimNonEmpty(currentChoices) THEN <<>>
    ELSE LET parsed == JSONParse(currentChoices)
         IN IF parsed.ok /\ IsChoiceArray(parsed.v) THEN parsed.v.a ELSE <<>>

(***************************************************************************)
(* getSaveSlots                                                            *)
(***************************************************************************)
DefaultSlotName(i) == "Save Slot " \o NumToStr(i)

\* a row counted as empty only when it has neither field
slotIsEmptyBoth(slot) == Falsy(slot.gamePhase) /\ Falsy(slot.spriteUrl)

\* const slotIsEmpty = !slot.gamePhase || !slot.spriteUrl
slotIsEmpty(slot) == Falsy(slot.gamePhase) \/ Falsy(slot.spriteUrl)

SlotSummary(slot, i) ==
    [slotNumber |-> i,
     slotName |-> IF Falsy(slot.slotName) THEN DefaultSlotName(i) ELSE slot.slotName,
     isEmpty |-> slotIsEmpty(slot),
     gamePhase |-> slot.gamePhase,
     spriteDescription |-> slot.spriteDescription,
     spriteUrl |-> slot.spriteUrl,
     gameTheme |-> slot.gameTheme,
     currentStory |-> slot.currentStory,
     currentChoices |-> ParsedChoices(slot.currentChoices),
     currentBackgroundImageUrl |-> slot.currentBackgroundImageUrl,
     score |-> ScoreOrZero(slot.score),
     updatedAt |-> slot.updatedAt]

\* a lookup by position in the rows read, saveSlots[i - 1], instead of find
FindSlotByPosition(slotRows, i) == IF i <= Len(slotRows) THEN i ELSE 0

\* saveSlots.find(slot => Number(slot.slotNumber) === i): its index, 0 if none
FindSlot(slotRows, i) ==
    IF \E k \in 1..Len(slotRows) : slotRows[k].slotNumber = i
    THEN CHOOSE k \in 1..Len(slotRows) :
             /\ slotRows[k].slotNumber = i
             /\ \A m \in 1..(k - 1) : slotRows[m].slotNumber # i
    ELSE 0

\* the loop for (let i = 1; i <= 3; i++) over the rows read
ProcessedSlots(slotRows) ==
    [i \in 1..3 |->
        IF FindSlot(slotRows, i) # 0
        THEN SlotSummary(slotRows[FindSlot(slotRows, i)], i)
        ELSE [slotNumber |-> i, slotName |-> DefaultSlotName(i), isEmpty |-> TRUE]]

GetSaveSlots(session) ==
    /\ IF session = NoSession
       THEN response' = [op |-> "getSaveSlots", session |-> session,
                         status |-> "unauthenticated",
                         warning |-> "You are not logged in. Your game progress won't be saved to your account.",
                         saveSlots |-> <<>>]
       ELSE \E slotRows \in OrderedBySlot(UserRows(gameSaves, session)) :
                response' = [op |-> "getSaveSlots", session |-> session,
                             status |-> "success", warning |-> Undefined,
                             saveSlots |-> ProcessedSlots(slotRows)]
    /\ UNCHANGED <<gameSaves, highScore, calls>>

(***************************************************************************)
(* loadGameSlot                                                            *)
(***************************************************************************)
\* {...save, currentChoices: parsedChoices}
LoadedSave(save) == [save EXCEPT !.currentChoices = ParsedChoices(save.currentChoices)]

LoadGameSlot(session, slotNumber) ==
    /\ IF slotNumber \notin 1..3
       THEN \* z.number().int().min(1).max(3) refuses the input before the procedure runs (BAD_REQUEST)
            response' = [op |-> "loadGameSlot", session |-> session, slotNumber |-> slotNumber,
                         status |-> "rejected"]
       ELSE IF session = NoSession
       THEN response' = [op |-> "loadGameSlot", session |-> session, slotNumber |-> slotNumber,
                         status |-> "unauthenticated"]
       ELSE IF SlotRows(gameSaves, session, slotNumber) # {}
       THEN \E save \in SlotRows(gameSaves, session, slotNumber) :
                response' = [op |-> "loadGameSlot", session |-> session,
                             slotNumber |-> slotNumber,
                             status |-> "loaded", saveData |-> LoadedSave(save)]
       ELSE response' = [op |-> "loadGameSlot", session |-> session, slotNumber |-> slotNumber,
                         status |-> "empty"]
    /\ UNCHANGED <<gameSaves, highScore, calls>>

(***************************************************************************)
(* saveGameSlot                                                            *)
(***************************************************************************)
\* input.currentChoices ? JSON.stringify(input.currentChoices) : '[]'
ChoicesString(currentChoices) ==
    IF currentChoices.t = "arr" THEN JSONStringify(currentChoices.a) ELSE "[]"

\* existingSave.length > 0 && existingSave[0] ? (existingSave[0].score || 0) : 0
CurrentScore(existingSave) ==
    IF existingSave # <<>> THEN ScoreOrZero(existingSave[1].score) ELSE 0

\* input.score || currentScore + 1, which takes an explicit 0 for no score
NewScoreTruthy(input, currentScore) ==
    IF input.score.t = "num" /\ input.score.n # 0 THEN input.score.n ELSE currentScore + 1

\* input.score !== undefined ? input.score : currentScore + 1
NewScore(input, currentScore) ==
    IF input.score.t # "undef" THEN input.score.n ELSE currentScore + 1

\* the UPDATE of saveGameSlot on one row (an undefined slotName is not set)
UpdatedSave(r, input, choicesString, newScore, currentTimestamp) ==
    [r EXCEPT !.gamePhase = input.gamePhase,
              !.slotName = IF input.slotName = Undefined THEN @ ELSE input.slotName,
              !.spriteDescription = OrNull(input.spriteDescription),
              !.spriteUrl = OrNull(input.spriteUrl),
              !.gameTheme = OrNull(input.gameTheme),
              !.currentStory = OrNull(input.currentStory),
              !.currentChoices = choicesString,
              !.currentBackgroundDescription = OrNull(input.currentBackgroundDescription),
              !.currentBackgroundImageUrl = OrNull(input.currentBackgroundImageUrl),
              !.score = JNum(newScore),
              !.updatedAt = currentTimestamp]

\* the row saveGameSlot inserts
InsertedSave(userId, input, choicesString, newScore, currentTimestamp) ==
    [userId |-> userId, slotNumber |-> input.slotNumber,
     gamePhase |-> input.gamePhase,
     slotName |-> IF Falsy(input.slotName) THEN DefaultSlotName(input.slotNumber)
                  ELSE input.slotName,
     spriteDescription |-> OrNull(input.spriteDescription),
     spriteUrl |-> OrNull(input.spriteUrl),
     gameTheme |-> OrNull(input.gameTheme),
     currentStory |-> OrNull(input.currentStory),
     currentChoices |-> choicesString,
     currentBackgroundDescription |-> OrNull(input.currentBackgroundDescription),
     currentBackgroundImageUrl |-> OrNull(input.currentBackgroundImageUrl),
     score |-> JNum(newScore),
     updatedAt |-> currentTimestamp]

\* INSERT
InsertRow(table, r) == table (+) SetToBag({r})

NotSavedWarning == "Game state not saved to database. Log in to save your progress."

SaveGameSlotUnauthenticated(session, input) ==
    [op |-> "saveGameSlot", session |-> session, input |-> input,
     success |-> FALSE, warning |-> NotSavedWarning,
     slotNumber |-> Undefined, score |-> JUndef]

\* a SELECT that finds no row
ExistingSavesNone(table, u, n) == {<<>>}

\* the SELECT ... LIMIT 1 of saveGameSlot: no row, or one of the slot's rows
ExistingSaves(table, u, n) ==
    IF SlotRows(table, u, n) = {} THEN {<<>>}
    ELSE {<<r>> : r \in SlotRows(table, u, n)}

\* a save that writes nothing
WrittenTableNothing(table, u, input, existingSave, currentTimestamp) == table

\* lines 529-587: the score, and the UPDATE or INSERT the SELECT's result
\* leads to
WrittenTable(table, u, input, existingSave, currentTimestamp) ==
    LET choicesString == ChoicesString(input.currentChoices)
        newScore == NewScore(input, CurrentScore(existingSave))
    IN IF existingSave # <<>>
       THEN \* UPDATE ... WHERE userId = u AND slotNumber = n
            BagOfAll(LAMBDA r : IF r.userId = u /\ r.slotNumber = input.slotNumber
                                THEN UpdatedSave(r, input, choicesString, newScore,
                                                 currentTimestamp)
                                ELSE r,
                     table)
       ELSE InsertRow(table, InsertedSave(u, input, choicesString, newScore,
                                          currentTimestamp))

SaveGameSlotSuccess(session, input, existingSave) ==
    [op |-> "saveGameSlot", session |-> session, input |-> input,
     success |-> TRUE, warning |-> Undefined,
     slotNumber |-> input.slotNumber,
     score |-> JNum(NewScore(input, CurrentScore(existingSave)))]

SaveGameSlot(session, input) ==
    /\ IF session = NoSession
       THEN /\ response' = SaveGameSlotUnauthenticated(session, input)
            /\ UNCHANGED gameSaves
       ELSE \E currentTimestamp \in Stamps(gameSaves),
               existingSave \in ExistingSaves(gameSaves, session, input.slotNumber) :
              /\ NewScore(input, CurrentScore(existingSave)) <= MaxScore
              /\ gameSaves' = WrittenTable(gameSaves, session, input, existingSave,
                                           currentTimestamp)
              /\ response' = SaveGameSlotSuccess(session, input, existingSave)
    /\ UNCHANGED <<highScore, calls>>

(***************************************************************************)
(* saveGame (legacy)                                                       *)
(***************************************************************************)
\* the UPDATE of saveGame on the row it read first
LegacyUpdatedSave(r, input, choicesString, newScore, currentTimestamp) ==
    [r EXCEPT !.gamePhase = input.gamePhase,
              !.spriteDescription = OrNull(input.spriteDescription),
              !.spriteUrl = OrNull(input.spriteUrl),
              !.gameTheme = OrNull(input.gameTheme),
              !.currentStory = OrNull(input.currentStory),
              !.currentChoices = choicesString,
              !.currentBackgroundDescription = OrNull(input.currentBackgroundDescription),
              !.currentBackgroundImageUrl = OrNull(input.currentBackgroundImageUrl),
              !.score = JNum(newScore),
              !.updatedAt = currentTimestamp]

SaveGame(session, input) ==
    IF session = NoSession
    THEN /\ response' = [op |-> "saveGame", session |-> session, input |-> input,
                         success |-> TRUE, warning |-> NotSavedWarning]
         /\ UNCHANGED <<gameSaves, highScore, calls>>
    ELSE \E currentTimestamp \in Stamps(gameSaves),
            existingSaves \in OrderedByUpdatedAt(UserRows(gameSaves, session)) :
           LET choicesString == ChoicesString(input.currentChoices)
               currentScore == IF Len(existingSaves) > 0
                               THEN ScoreOrZero(existingSaves[1].score) ELSE 0
               newScore == currentScore + 1
           IN /\ newScore <= MaxScore
              /\ gameSaves' =
                     IF Len(existingSaves) > 0
                     THEN InsertRow(gameSaves (-) SetToBag({existingSaves[1]}),
                                    LegacyUpdatedSave(existingSaves[1], input,
                                                      choicesString, newScore,
                                                      currentTimestamp))
                     ELSE InsertRow(gameSaves,
                                    InsertedSave(session,
                                                 [input EXCEPT !.slotNumber = 1,
                                                               !.slotName = "Save Slot 1"],
                                                 choicesString, newScore,
                                                 currentTimestamp))
              /\ response' = [op |-> "saveGame", session |-> session, input |-> input,
                              success |-> TRUE, warning |-> Undefined]
              /\ UNCHANGED <<highScore, calls>>

(***************************************************************************)
(* loadGame (legacy)                                                       *)
(***************************************************************************)
LoadGame(session) ==
    /\ IF session = NoSession
       THEN response' = [op |-> "loadGame", session |-> session, status |-> "new",
                         warning |-> "You are not logged in. Your game progress won't be saved to your account."]
       ELSE \E slotRows \in OrderedByUpdatedAt(UserRows(gameSaves, session)) :
                response' = IF Len(slotRows) > 0
                            THEN [op |-> "loadGame", session |-> session,
                                  status |-> "loaded", warning |-> Undefined,
                                  saveData |-> LoadedSave(slotRows[1])]
                            ELSE [op |-> "loadGame", session |-> session,
                                  status |-> "new", warning |-> Undefined]
    /\ UNCHANGED <<gameSaves, highScore, calls>>

(***************************************************************************)
(* deleteGameSave                                                          *)
(***************************************************************************)
DeleteGameSave(session, slotNumber) ==
    /\ IF session = NoSession
       THEN /\ response' = [op |-> "deleteGameSave", session |-> session,
                            slotNumber |-> slotNumber,
                            success |-> FALSE, message |-> "User not authenticated"]
            /\ UNCHANGED gameSaves
       ELSE \* DELETE ... WHERE userId = u AND slotNumber = n
            /\ gameSaves' = [r \in Rows(gameSaves) \ SlotRows(gameSaves, session, slotNumber)
                                |-> gameSaves[r]]
            /\ response' = [op |-> "deleteGameSave", session |-> session,
                            slotNumber |-> slotNumber,
                            success |-> TRUE, message |-> "Game save deleted successfully"]
    /\ UNCHANGED <<highScore, calls>>

(***************************************************************************)
(* The user router                                                         *)
(***************************************************************************)
\* a comparison that also takes an equal score
ScoreIsHigherOrEqual(score, currentHighScore) == score >= currentHighScore

\* input.score > currentHighScore
ScoreIsHigher(score, currentHighScore) == score > currentHighScore

UpdateHighScore(session, score) ==
    IF session = NoSession
    THEN /\ response' = [op |-> "updateHighScore", session |-> session, score |-> score,
                         success |-> FALSE, message |-> "User not authenticated"]
         /\ UNCHANGED <<gameSaves, highScore, calls>>
    ELSE LET currentHighScore == ScoreOrZero(highScore[session])
         IN /\ IF ScoreIsHigher(score, currentHighScore)
               THEN /\ highScore' = [highScore EXCEPT ![session] = JNum(score)]
                    /\ response' = [op |-> "updateHighScore", session |-> session,
                                    score |-> score, success |-> TRUE,
                                    message |-> "High score updated"]
               ELSE /\ UNCHANGED highScore
                    /\ response' = [op |-> "updateHighScore", session |-> session,
                                    score |-> score, success |-> FALSE,
                                    message |-> "Score not high enough to update high score"]
            /\ UNCHANGED <<gameSaves, calls>>

(***************************************************************************)
(* The calls made                                                          *)
(***************************************************************************)
\* new Date().toLocaleDateString()
Today == "1/1/2026"

\* handleNewGame's save
NewGameInput(n) ==
    [slotNumber |-> n, gamePhase |-> "sprite", score |-> JNum(0),
     slotName |-> "New Game - " \o Today,
     spriteDescription |-> Undefined, spriteUrl |-> Undefined,
     gameTheme |-> Undefined, currentStory |-> Undefined, currentChoices |-> JUndef,
     currentBackgroundDescription |-> Undefined, currentBackgroundImageUrl |-> Undefined]

\* a save in phase playing
PlayingInput(n, score) ==
    [slotName |-> "Game", spriteDescription |-> "knight", spriteUrl |-> "https://img/1",
     gameTheme |-> "space", currentStory |-> "S1", currentChoices |-> JArr(GoChoices),
     currentBackgroundDescription |-> "cave", currentBackgroundImageUrl |-> Null,
     slotNumber |-> n, gamePhase |-> "playing", score |-> score]

SaveInputs ==
    {NewGameInput(n) : n \in SlotNumbers}
    \cup {PlayingInput(n, sc) : n \in SlotNumbers, sc \in {JUndef, JNum(MaxScore)}}

\* saveGame's input has no slot, name or score
LegacyInputs == {[PlayingInput(1, JUndef) EXCEPT !.slotName = Undefined]}


\* a row written before this router: no score, choices that are no JSON
LegacyRow(u, n) ==
    [userId |-> u, slotNumber |-> n, gamePhase |-> "theme", slotName |-> Null,
     spriteDescription |-> "elf", spriteUrl |-> Null, gameTheme |-> Null,
     currentStory |-> Null, currentChoices |-> "not json",
     currentBackgroundDescription |-> Null, currentBackgroundImageUrl |-> Null,
     score |-> JNull, updatedAt |-> 0]

NoResponse == [op |-> "none"]

(***************************************************************************)
(* The game page (client).  A mutation in flight is a member of requests;  *)
(* the server handles a request and the page runs its onSuccess callback   *)
(* in one step.  A callback reads the state variables of the render it was *)
(* created in: the render of the mutate call, or the latest render before  *)
(* the answer, depending on the query library's version.                   *)
(***************************************************************************)
ClientUser == "u1"
\* what the generators do while the page is played
ClientGens ==
    {[threw |-> FALSE,
      content |-> StringifyValue(StoryReply(JStr("S1"), JArr(GoChoices), JStr("cave")))],
     [threw |-> FALSE,
      content |-> StringifyValue(StoryReply(JStr("S2"), JArr(OverChoices), JStr("grave")))],
     [threw |-> FALSE,
      content |-> StringifyValue(StoryReply(JStr("S4"),
                                            JArr(<<Choice(7, "Climb"), Choice(8, "Swim"),
                                                   Choice(9, "Wait")>>),
                                            JStr("sea")))]}

NoGameState == JNull
NoCause == [kind |-> "none"]

\* {...state, choices}: the GameState the page keeps
GameStateOf(state, choices) ==
    [t |-> "state", story |-> state.story, choices |-> choices,
     backgroundDescription |-> state.backgroundDescription]

\* padding with the default options in their order, whatever ids are in use
ensureThreeChoicesInOrder(choices) ==
    IF Len(choices) >= 3 THEN SubSeq(choices, 1, 3)
    ELSE choices \o SubSeq(<<Choice(1, "Continue forward"), Choice(2, "Explore the area"),
                             Choice(3, "Turn back")>>, 1, 3 - Len(choices))

RECURSIVE ensureThreeChoices(_)
ensureThreeChoices(choices) ==
    LET defaultOptions ==
            <<Choice(1, "Continue forward"), Choice(2, "Explore the area"),
              Choice(3, "Turn back")>>
        usedIds == {GetProp(choices[i], "id").n : i \in 1..Len(choices)}
        \* defaultOptions.find(opt => !usedIds.includes(opt.id)), or a new id
        availableOption ==
            IF \E k \in 1..3 : k \notin usedIds
            THEN defaultOptions[CHOOSE k \in 1..3 :
                                    /\ k \notin usedIds
                                    /\ \A m \in 1..(k - 1) : m \in usedIds]
            ELSE LET newId == Max(usedIds) + 1
                 IN Choice(newId, "Option " \o NumToStr(newId))
    IN IF Len(choices) = 3 THEN choices
       ELSE IF Len(choices) > 3 THEN SubSeq(choices, 1, 3)
       ELSE ensureThreeChoices(Append(choices, availableOption))

\* the state variables a callback created in this render reads
Render ==
    [sessionStatus |-> sessionStatus, gamePhase |-> gamePhase,
     currentSlot |-> currentSlot, spriteDescription |-> spriteDescription,
     spriteUrl |-> spriteUrl, gameTheme |-> gameTheme, gameState |-> gameState,
     backgroundImageUrl |-> backgroundImageUrl, gameScore |-> gameScore]

\* the renders the onSuccess callback of a request may belong to
Closures(req) == {req.render, Render}

\* x ?? null on a value of the generator's reply
TextOrNull(v) == IF v.t = "str" THEN v.s ELSE Null

\* saveData of triggerSave, from the render it runs in
SaveData(render) ==
    [slotNumber |-> render.currentSlot,
     slotName |-> "Game " \o NumToStr(render.gameScore) \o " pts - " \o Today,
     gamePhase |-> render.gamePhase,
     spriteDescription |-> render.spriteDescription,
     spriteUrl |-> render.spriteUrl,
     gameTheme |-> render.gameTheme,
     currentStory |-> IF render.gameState = NoGameState THEN Null
                      ELSE TextOrNull(render.gameState.story),
     currentChoices |-> IF render.gameState = NoGameState THEN JArr(<<>>)
                        ELSE JArr(render.gameState.choices),
     currentBackgroundDescription |->
         IF render.gameState = NoGameState THEN Null
         ELSE TextOrNull(render.gameState.backgroundDescription),
     currentBackgroundImageUrl |-> render.backgroundImageUrl,
     score |-> JNum(render.gameScore)]

\* triggerSave in a render: the saveGameSlot mutations it starts
triggerSave(render, cause) ==
    IF \/ render.sessionStatus # "authenticated"
       \/ render.gamePhase \in {"loading", "slots"}
       \/ render.currentSlot = 0
    THEN {}
    ELSE {[kind |-> "saveGameSlot", input |-> SaveData(render), cause |-> cause]}

\* generateSprite.isPending || startGame.isPending || makeChoice.isPending
\*   || saveGameSlot.isPending || isLoadingGameSlot
isMutating == requests # {} \/ slotToLoad > 0

\* mutationError: the page renders the error view in place of its controls
\* (lines 623-636)
mutationError == settled.kind = "saveGameSlotError"

\* a further mutation may start
HasRoom == Cardinality(requests) < MaxInFlight

pageState ==
    <<gamePhase, saveSlots, currentSlot, spriteDescription, spriteUrl, gameTheme,
      gameState, backgroundImageUrl, gameScore, showChoiceCloud,
      transitioningToNextScene, slotToLoad>>

serverVars == <<highScore, response, calls, verificationTokens>>

\* the getSaveSlots query answers and its effect runs (lines 122-167)
SaveSlotsLoaded ==
    /\ sessionStatus = "authenticated"
    /\ gamePhase = "loading"
    /\ \E rows \in OrderedBySlot(UserRows(gameSaves, ClientUser)) :
           saveSlots' = ProcessedSlots(rows)
    /\ gamePhase' = "slots"
    /\ UNCHANGED <<sessionStatus, currentSlot, spriteDescription, spriteUrl, gameTheme,
                   gameState, backgroundImageUrl, gameScore, showChoiceCloud,
                   transitioningToNextScene, slotToLoad, requests, timers, settled,
                   terminalStep, gameSaves, serverVars>>

\* handleNewGame, from the slot list or from the New Game button while playing
handleNewGame(slotNumber) ==
    /\ ~isMutating /\ ~mutationError /\ HasRoom
    /\ \/ gamePhase = "slots" /\ slotNumber \in {1}  \* the slot the player picks
       \/ /\ gamePhase = "playing" /\ gameState # NoGameState
          /\ slotNumber = (IF currentSlot = 0 THEN 1 ELSE currentSlot)
    /\ currentSlot' = slotNumber
    /\ gamePhase' = "sprite"
    /\ spriteDescription' = ""
    /\ spriteUrl' = Null
    /\ gameTheme' = ""
    /\ gameState' = NoGameState
    /\ backgroundImageUrl' = Null
    /\ gameScore' = 0
    /\ showChoiceCloud' = FALSE
    /\ transitioningToNextScene' = FALSE
    /\ requests' = IF sessionStatus = "authenticated"
                   THEN requests \cup {[kind |-> "saveGameSlot",
                                        input |-> NewGameInput(slotNumber),
                                        cause |-> NoCause]}
                   ELSE requests
    /\ terminalStep' = "none"
    /\ UNCHANGED <<sessionStatus, saveSlots, slotToLoad, timers, settled, gameSaves,
                   serverVars>>

\* handleLoadGame: the Load button of a slot that is listed as not empty
handleLoadGame(slotNumber) ==
    /\ ~isMutating /\ ~mutationError
    /\ gamePhase = "slots"
    /\ slotNumber <= Len(saveSlots)
    /\ ~saveSlots[slotNumber].isEmpty
    /\ slotToLoad' = slotNumber
    /\ UNCHANGED <<sessionStatus, gamePhase, saveSlots, currentSlot, spriteDescription,
                   spriteUrl, gameTheme, gameState, backgroundImageUrl, gameScore,
                   showChoiceCloud, transitioningToNextScene, requests, timers, settled,
                   terminalStep, gameSaves, serverVars>>

\* x || null
OrNullIfFalsy(x) == IF Falsy(x) THEN Null ELSE x
\* x ?? ""
OrEmpty(x) == IF x \in {Null, Undefined} THEN "" ELSE x

\* the loadGameSlot query answers and its effect runs (lines 137-143, 189-259)
GameSlotLoaded ==
    /\ slotToLoad > 0
    /\ IF sessionStatus = "authenticated" /\ SlotRows(gameSaves, ClientUser, slotToLoad) # {}
       THEN \E save \in SlotRows(gameSaves, ClientUser, slotToLoad) :
              LET saveData == LoadedSave(save)
              IN /\ currentSlot' = saveData.slotNumber
                 /\ gamePhase' = saveData.gamePhase
                 /\ spriteDescription' = OrEmpty(saveData.spriteDescription)
                 /\ spriteUrl' = OrNullIfFalsy(saveData.spriteUrl)
                 /\ gameTheme' = OrEmpty(saveData.gameTheme)
                 /\ backgroundImageUrl' = OrNullIfFalsy(saveData.currentBackgroundImageUrl)
                 /\ gameScore' = ScoreOrZero(saveData.score)
                 /\ gameState' =
                        IF saveData.gamePhase = "playing"
                        THEN [t |-> "state",
                              story |-> JStr(OrEmpty(saveData.currentStory)),
                              choices |-> ensureThreeChoices(saveData.currentChoices),
                              backgroundDescription |->
                                  JStr(OrEmpty(saveData.currentBackgroundDescription))]
                        ELSE NoGameState
                 /\ showChoiceCloud' = FALSE
                 /\ terminalStep' = "none"
       ELSE IF sessionStatus = "authenticated"
       THEN /\ currentSlot' = slotToLoad
            /\ gamePhase' = "sprite"
            /\ spriteDescription' = ""
            /\ spriteUrl' = Null
            /\ gameTheme' = ""
            /\ gameState' = NoGameState
            /\ backgroundImageUrl' = Null
            /\ gameScore' = 0
            /\ terminalStep' = "none"
            /\ UNCHANGED showChoiceCloud
       ELSE UNCHANGED <<currentSlot, gamePhase, spriteDescription, spriteUrl, gameTheme,
                        gameState, backgroundImageUrl, gameScore, showChoiceCloud,
                        terminalStep>>
    /\ slotToLoad' = 0
    /\ UNCHANGED <<sessionStatus, saveSlots, transitioningToNextScene, requests, timers,
                   settled, gameSaves, serverVars>>

\* typing in the sprite form
setSpriteDescription(description) ==
    /\ gamePhase = "sprite" /\ ~isMutating /\ ~mutationError
    /\ spriteDescription' = description
    /\ UNCHANGED <<sessionStatus, gamePhase, saveSlots, currentSlot, spriteUrl, gameTheme,
                   gameState, backgroundImageUrl, gameScore, showChoiceCloud,
                   transitioningToNextScene, slotToLoad, requests, timers, settled,
                   terminalStep, gameSaves, serverVars>>

\* typing in the theme form
setGameTheme(theme) ==
    /\ gamePhase = "theme" /\ ~isMutating /\ ~mutationError
    /\ gameTheme' = theme
    /\ UNCHANGED <<sessionStatus, gamePhase, saveSlots, currentSlot, spriteDescription,
                   spriteUrl, gameState, backgroundImageUrl, gameScore, showChoiceCloud,
                   transitioningToNextScene, slotToLoad, requests, timers, settled,
                   terminalStep, gameSaves, serverVars>>

handleSpriteSubmit ==
    /\ gamePhase = "sprite" /\ ~isMutating /\ ~mutationError /\ HasRoom
    /\ TrimNonEmpty(spriteDescription)
    /\ requests' = requests \cup {[kind |-> "generateSprite",
                                   input |-> [description |-> spriteDescription],
                                   render |-> Render]}
    /\ UNCHANGED <<sessionStatus, pageState, timers, settled, terminalStep, gameSaves,
                   serverVars>>

handleThemeSubmit ==
    /\ gamePhase = "theme" /\ ~isMutating /\ ~mutationError /\ HasRoom
    /\ TrimNonEmpty(gameTheme) /\ spriteDescription # ""
    /\ requests' = requests \cup {[kind |-> "startGame",
                                   input |-> [theme |-> gameTheme,
                                              spriteDescription |-> spriteDescription],
                                   render |-> Render]}
    /\ UNCHANGED <<sessionStatus, pageState, timers, settled, terminalStep, gameSaves,
                   serverVars>>

\* what generateSprite answers
generateSprite(session, input, hasKey, img) ==
    [imageUrl |-> generateImageWithAI("Retro character sprite (front view): "
                                          \o input.description, hasKey, img),
     warning |-> LoginWarning(session)]

\* generateSprite answers and its onSuccess runs (lines 262-278)
GenerateSpriteSettles(req, img) ==
    /\ req \in requests /\ req.kind = "generateSprite"
    /\ gameScore < MaxScore
    /\ LET data == generateSprite(ClientUser, req.input, TRUE, img)
       IN /\ spriteUrl' = data.imageUrl
          /\ gamePhase' = "theme"
          /\ gameScore' = gameScore + 1
          /\ \E closure \in Closures(req) :
                 requests' = (requests \ {req})
                             \cup triggerSave(closure, [kind |-> "generateSprite",
                                                        imageUrl |-> data.imageUrl])
    /\ UNCHANGED <<sessionStatus, saveSlots, currentSlot, spriteDescription, gameTheme,
                   gameState, backgroundImageUrl, showChoiceCloud,
                   transitioningToNextScene, slotToLoad, timers, settled, terminalStep,
                   gameSaves, serverVars>>

\* startGame answers and its onSuccess runs (lines 280-312)
startGameOnSuccess(req, data) ==
    LET initialChoices == ensureThreeChoices(data.state.choices.a)
        started == GameStateOf(data.state, initialChoices)
    IN /\ gameState' = started
       /\ backgroundImageUrl' = data.backgroundImageUrl
       /\ gamePhase' = "playing"
       /\ gameScore' = gameScore + 1
       /\ showChoiceCloud' = FALSE
       /\ terminalStep' = IF data.gameOver THEN "startGame" ELSE terminalStep
       /\ \E closure \in Closures(req) :
              requests' = (requests \ {req})
                          \cup triggerSave(closure,
                                           [kind |-> "startGame", gameState |-> started,
                                            backgroundImageUrl |-> data.backgroundImageUrl])

\* the startGame request settles: the server answers and onSuccess runs
StartGameSettles(req, gen, img, choiceNum) ==
    /\ req \in requests /\ req.kind = "startGame"
    /\ gameScore < MaxScore
    /\ startGameOnSuccess(req, startGame(ClientUser, req.input, TRUE, gen, img, choiceNum))
    /\ UNCHANGED <<sessionStatus, saveSlots, currentSlot, spriteDescription, spriteUrl,
                   gameTheme, transitioningToNextScene, slotToLoad, timers, settled,
                   gameSaves, serverVars>>

\* the sprite walks to the right side (the game loop, lines 368-432)
ReachRightSide ==
    /\ gamePhase = "playing" /\ ~transitioningToNextScene /\ ~showChoiceCloud
    /\ showChoiceCloud' = TRUE
    /\ UNCHANGED <<sessionStatus, gamePhase, saveSlots, currentSlot, spriteDescription,
                   spriteUrl, gameTheme, gameState, backgroundImageUrl, gameScore,
                   transitioningToNextScene, slotToLoad, requests, timers, settled,
                   terminalStep, gameSaves, serverVars>>

\* handleKeyDown on a number key, and handleChoiceSelection (lines 438-491)
handleKeyDown(key) ==
    /\ gamePhase = "playing"
    /\ showChoiceCloud
    /\ gameState # NoGameState
    \* gameState.choices.find(c => c.id === choiceId)
    /\ \E i \in 1..Len(gameState.choices) :
           GetProp(gameState.choices[i], "id") = JNum(key)
    \* !makeChoiceMutation.isPending
    /\ ~(\E req \in requests : req.kind = "makeChoice") /\ HasRoom
    /\ gameTheme # "" /\ spriteDescription # ""
    /\ gameState.story.t = "str"
    /\ requests' = requests \cup {[kind |-> "makeChoice",
                                   input |-> [choiceId |-> key,
                                              currentStory |-> gameState.story.s,
                                              currentChoices |-> gameState.choices,
                                              gameTheme |-> gameTheme,
                                              spriteDescription |-> spriteDescription],
                                   render |-> Render]}
    /\ UNCHANGED <<sessionStatus, pageState, timers, settled, terminalStep, gameSaves,
                   serverVars>>

\* makeChoice answers and its onSuccess runs, up to setTimeout (lines 314-350)
MakeChoiceSettles(req, isBlunder, gen, img) ==
    /\ req \in requests /\ req.kind = "makeChoice"
    /\ gameScore < MaxScore
    /\ Cardinality(timers) < MaxTimers
    /\ LET data == makeChoice(ClientUser, req.input, isBlunder, TRUE, gen, img)
           nextChoices == ensureThreeChoices(data.state.choices.a)
       IN /\ transitioningToNextScene' = TRUE
          /\ gameScore' = gameScore + 1
          /\ terminalStep' = IF data.gameOver THEN "makeChoice" ELSE terminalStep
          /\ \E closure \in Closures(req) :
                 timers' = timers \cup {[gameState |-> GameStateOf(data.state, nextChoices),
                                         backgroundImageUrl |-> data.backgroundImageUrl,
                                         render |-> closure]}
    /\ requests' = requests \ {req}
    /\ UNCHANGED <<sessionStatus, gamePhase, saveSlots, currentSlot, spriteDescription,
                   spriteUrl, gameTheme, gameState, backgroundImageUrl, showChoiceCloud,
                   slotToLoad, settled, gameSaves, serverVars>>

\* the 500 ms timer of makeChoice's onSuccess fires (lines 327-343)
TimerFires(timer) ==
    /\ timer \in timers
    /\ HasRoom
    /\ gameState' = timer.gameState
    /\ backgroundImageUrl' = timer.backgroundImageUrl
    /\ showChoiceCloud' = FALSE
    /\ transitioningToNextScene' = FALSE
    /\ timers' = timers \ {timer}
    /\ requests' = requests
                   \cup triggerSave(timer.render,
                                    [kind |-> "makeChoice", gameState |-> timer.gameState,
                                     backgroundImageUrl |-> timer.backgroundImageUrl])
    /\ UNCHANGED <<sessionStatus, gamePhase, saveSlots, currentSlot, spriteDescription,
                   spriteUrl, gameTheme, gameScore, slotToLoad, settled, terminalStep,
                   gameSaves, serverVars>>

handleReturnToSlots ==
    /\ gamePhase \in {"sprite", "theme", "playing"}
    /\ gamePhase = "playing" => gameState # NoGameState
    /\ ~isMutating /\ ~mutationError /\ HasRoom
    /\ requests' = IF currentSlot # 0 THEN requests \cup triggerSave(Render, NoCause)
                   ELSE requests
    /\ gamePhase' = "slots"
    /\ UNCHANGED <<sessionStatus, saveSlots, currentSlot, spriteDescription, spriteUrl,
                   gameTheme, gameState, backgroundImageUrl, gameScore, showChoiceCloud,
                   transitioningToNextScene, slotToLoad, timers, settled, terminalStep,
                   gameSaves, serverVars>>

\* the Save button of the playing screen (line 955)
SaveButton ==
    /\ gamePhase = "playing" /\ gameState # NoGameState
    /\ ~isMutating /\ ~mutationError /\ HasRoom /\ sessionStatus = "authenticated" /\ currentSlot # 0
    /\ requests' = requests \cup triggerSave(Render, NoCause)
    /\ UNCHANGED <<sessionStatus, pageState, timers, settled, terminalStep, gameSaves,
                   serverVars>>

\* saveGameSlot runs on the server and answers, its onSuccess runs, and the
\* slot list it refetches arrives (lines 170-186)
SaveGameSlotSettles(req) ==
    /\ req \in requests /\ req.kind = "saveGameSlot"
    /\ \E currentTimestamp \in Stamps(gameSaves),
          existingSave \in ExistingSaves(gameSaves, ClientUser, req.input.slotNumber) :
         /\ NewScore(req.input, CurrentScore(existingSave)) <= MaxScore
         /\ gameSaves' = WrittenTable(gameSaves, ClientUser, req.input, existingSave,
                                      currentTimestamp)
         /\ gameScore' = SaveGameSlotSuccess(ClientUser, req.input, existingSave).score.n
    /\ \E rows \in OrderedBySlot(UserRows(gameSaves', ClientUser)) :
           saveSlots' = ProcessedSlots(rows)
    /\ requests' = requests \ {req}
    /\ settled' = [kind |-> "saveGameSlot", slotNumber |-> req.input.slotNumber,
                   cause |-> req.cause]
    /\ UNCHANGED <<sessionStatus, gamePhase, currentSlot, spriteDescription, spriteUrl,
                   gameTheme, gameState, backgroundImageUrl, showChoiceCloud,
                   transitioningToNextScene, slotToLoad, timers, terminalStep,
                   serverVars>>

\* saveGameSlot fails on the server: the SELECT throws, or the UPDATE or the
\* INSERT throws and the catch block throws it again (part_002 lines 515-598);
\* no row is written, the call is not made again, and onError runs (page.tsx
\* lines 182-185)
SaveGameSlotFails(req) ==
    /\ req \in requests /\ req.kind = "saveGameSlot"
    /\ requests' = requests \ {req}
    /\ settled' = [kind |-> "saveGameSlotError", slotNumber |-> req.input.slotNumber,
                   cause |-> req.cause,
                   alert |-> "Failed to save game: database error"]
    /\ UNCHANGED <<sessionStatus, pageState, timers, terminalStep, gameSaves,
                   serverVars>>

(***************************************************************************)
(* The initial state                                                       *)
(***************************************************************************)
\* a call that has not started, or has returned
IdleCall == [pc |-> "idle"]

InitServer ==
    /\ gameSaves = SetToBag({LegacyRow("u1", 2), LegacyRow("u2", 1)})
    /\ highScore \in [Users -> {JNull}]
    /\ response = NoResponse
    /\ calls = [c \in CallIds |-> IdleCall]
    /\ verificationTokens = EmptyBag

\* the useState initial values (lines 63-86)
InitPage(status) ==
    /\ sessionStatus = status
    /\ gamePhase = "loading"
    /\ saveSlots = <<>>
    /\ currentSlot = 0
    /\ spriteDescription = ""
    /\ spriteUrl = Null
    /\ gameTheme = ""
    /\ gameState = NoGameState
    /\ backgroundImageUrl = Null
    /\ gameScore = 0
    /\ showChoiceCloud = FALSE
    /\ transitioningToNextScene = FALSE
    /\ slotToLoad = 0
    /\ requests = {}
    /\ timers = {}
    /\ settled = [kind |-> "none"]
    /\ terminalStep = "none"

Init == InitServer /\ InitPage("authenticated")

vars == <<gameSaves, highScore, response, calls, verificationTokens, pageVars>>

(***************************************************************************)
(* Spec: the save-slot procedures, called one after the other              *)
(***************************************************************************)
Next ==
    \/ \E session \in Sessions : GetSaveSlots(session) /\ UNCHANGED <<pageVars, verificationTokens>>
    \/ \E session \in Sessions, n \in SlotNumbers : LoadGameSlot(session, n) /\ UNCHANGED <<pageVars, verificationTokens>>
    \/ \E session \in Sessions : LoadGame(session) /\ UNCHANGED <<pageVars, verificationTokens>>
    \/ \E session \in Sessions, input \in SaveInputs :
           SaveGameSlot(session, input) /\ UNCHANGED <<pageVars, verificationTokens>>
    \/ \E session \in Sessions, n \in SlotNumbers :
           DeleteGameSave(session, n) /\ UNCHANGED <<pageVars, verificationTokens>>

Spec == Init /\ [][Next]_vars

(***************************************************************************)
(* SpecWrites: the four write procedures, called one after the other       *)
(***************************************************************************)
NextWrites ==
    \/ \E session \in Sessions, n \in SlotNumbers :
           SaveGameSlot(session, NewGameInput(n)) /\ UNCHANGED <<pageVars, verificationTokens>>
    \/ \E session \in Sessions, input \in LegacyInputs : SaveGame(session, input) /\ UNCHANGED <<pageVars, verificationTokens>>
    \/ \E session \in Sessions, n \in SlotNumbers :
           DeleteGameSave(session, n) /\ UNCHANGED <<pageVars, verificationTokens>>
    \/ \E session \in Sessions, score \in 0..MaxScore : UpdateHighScore(session, score) /\ UNCHANGED <<pageVars, verificationTokens>>

SpecWrites == Init /\ [][NextWrites]_vars

WriteProcedures == {"saveGameSlot", "saveGame", "deleteGameSave", "updateHighScore"}

C4_Step ==
    (response'.op \in WriteProcedures /\ response'.session = NoSession) =>
        /\ response'.success = FALSE
        /\ \/ "warning" \in DOMAIN response' /\ response'.warning # Undefined
           \/ "message" \in DOMAIN response' /\ response'.message # Undefined
        /\ gameSaves' = gameSaves
        /\ highScore' = highScore

\* C4: every write procedure called without a signed-in user (saveGameSlot,
\* the legacy saveGame, deleteGameSave, updateHighScore) answers success:
\* false with a warning or message, and changes no row.
C4_UnauthenticatedWrites == [][C4_Step]_vars

(***************************************************************************)
(* Properties of the save-slot procedures                                  *)
(***************************************************************************)
PlaceholderNames == <<"Save Slot 1", "Save Slot 2", "Save Slot 3">>

\* entry e of a getSaveSlots answer shows row r
ShowsRow(e, r) ==
    /\ DOMAIN e = {"slotNumber", "slotName", "isEmpty", "gamePhase", "spriteDescription",
                   "spriteUrl", "gameTheme", "currentStory", "currentChoices",
                   "currentBackgroundImageUrl", "score", "updatedAt"}
    /\ e.slotNumber = r.slotNumber
    /\ e.slotName = IF r.slotName \in {Null, ""} THEN PlaceholderNames[r.slotNumber]
                    ELSE r.slotName
    /\ e.gamePhase = r.gamePhase
    /\ e.spriteDescription = r.spriteDescription
    /\ e.spriteUrl = r.spriteUrl
    /\ e.gameTheme = r.gameTheme
    /\ e.currentStory = r.currentStory
    /\ e.currentBackgroundImageUrl = r.currentBackgroundImageUrl
    /\ e.score = (IF r.score = JNull THEN 0 ELSE r.score.n)
    /\ e.updatedAt = r.updatedAt

\* C1: for an authenticated user u, getSaveSlots answers exactly three
\* entries with slotNumber 1, 2, 3 in that order; entry n shows u's row of
\* slot n when there is one, and is otherwise exactly the placeholder
\* {slotNumber: n, slotName: 'Save Slot n', isEmpty: true}.
C1_ThreeSlots ==
    (response.op = "getSaveSlots" /\ response.session # NoSession) =>
        /\ response.status = "success"
        /\ Len(response.saveSlots) = 3
        /\ \A n \in {1, 2, 3} :
              LET e == response.saveSlots[n]
                  rows == {r \in Rows(gameSaves) :
                              r.userId = response.session /\ r.slotNumber = n}
              IN /\ e.slotNumber = n
                 /\ rows # {} => \E r \in rows : ShowsRow(e, r)
                 /\ rows = {} => e = [slotNumber |-> n, slotName |-> PlaceholderNames[n],
                                      isEmpty |-> TRUE]

\* a listing with a row behind entry 2 and placeholders around it
C1_Witness ==
    /\ response.op = "getSaveSlots"
    /\ response.session = "u1"
    /\ SlotRows(gameSaves, "u1", 1) = {}
    /\ SlotRows(gameSaves, "u1", 2) # {}
    /\ SlotRows(gameSaves, "u1", 3) = {}
    /\ response.saveSlots[2].gamePhase = "playing"
    /\ response.saveSlots[3].isEmpty

\* the score a (user, slot) holds: 0 with no row or a null score
PriorScore(table, u, n) ==
    IF \E r \in Rows(table) : r.userId = u /\ r.slotNumber = n /\ r.score # JNull
    THEN (CHOOSE r \in Rows(table) :
              r.userId = u /\ r.slotNumber = n /\ r.score # JNull).score.n
    ELSE 0

C2_Step ==
    (response'.op = "saveGameSlot" /\ response'.session # NoSession) =>
        LET u == response'.session
            n == response'.input.slotNumber
            S == PriorScore(gameSaves, u, n)
            expected == IF response'.input.score = JUndef THEN S + 1
                        ELSE response'.input.score.n
        IN /\ response'.success
           /\ response'.score = JNum(expected)
           /\ \E r \in Rows(gameSaves') : r.userId = u /\ r.slotNumber = n
           /\ \A r \in Rows(gameSaves') :
                  (r.userId = u /\ r.slotNumber = n) => r.score = JNum(expected)

\* C2: an authenticated saveGameSlot on a (user, slot) whose prior score is S
\* (0 with no row or a null score) stores and returns S + 1 when the input
\* has no score, and exactly V when the input has the score V, 0 included.
C2_Score == [][C2_Step]_vars

\* a save without a score over a row that held a positive score
C2_Witness ==
    /\ response.op = "saveGameSlot"
    /\ response.session = "u1"
    /\ response.input.score = JUndef
    /\ response.score = JNum(2)
    /\ \E r \in SlotRows(gameSaves, "u1", response.input.slotNumber) : r.score = JNum(2)

(***************************************************************************)
(* SpecRace: saveGameSlot calls that overlap.  A call awaits the SELECT    *)
(* (line 515) and then the UPDATE or INSERT (lines 540, 569): other calls  *)
(* run between the two.                                                    *)
(***************************************************************************)
\* lines 496-524: the session check, the timestamp, and the SELECT
SaveGameSlotSelect(c, session, input) ==
    /\ calls[c].pc = "idle"
    /\ IF session = NoSession
       THEN /\ response' = SaveGameSlotUnauthenticated(session, input)
            /\ UNCHANGED calls
       ELSE \E currentTimestamp \in Stamps(gameSaves),
               existingSave \in ExistingSaves(gameSaves, session, input.slotNumber) :
              /\ NewScore(input, CurrentScore(existingSave)) <= MaxScore
              /\ calls' = [calls EXCEPT ![c] =
                              [pc |-> "selected", session |-> session, input |-> input,
                               currentTimestamp |-> currentTimestamp,
                               existingSave |-> existingSave]]
              /\ UNCHANGED response
    /\ UNCHANGED <<gameSaves, highScore>>

\* lines 526-594: the UPDATE or INSERT, and the answer
SaveGameSlotWrite(c) ==
    /\ calls[c].pc = "selected"
    /\ gameSaves' = WrittenTable(gameSaves, calls[c].session, calls[c].input,
                                 calls[c].existingSave, calls[c].currentTimestamp)
    /\ response' = SaveGameSlotSuccess(calls[c].session, calls[c].input,
                                       calls[c].existingSave)
    /\ calls' = [calls EXCEPT ![c] = IdleCall]
    /\ UNCHANGED highScore

NextRace ==
    \/ \E c \in CallIds, session \in Sessions,
          input \in {NewGameInput(1), PlayingInput(1, JUndef), PlayingInput(2, JUndef)} :
           SaveGameSlotSelect(c, session, input) /\ UNCHANGED <<pageVars, verificationTokens>>
    \/ \E c \in CallIds : SaveGameSlotWrite(c) /\ UNCHANGED <<pageVars, verificationTokens>>
    \/ \E session \in Sessions, n \in {1, 2} :
           LoadGameSlot(session, n) /\ UNCHANGED <<pageVars, verificationTokens>>

SpecRace == Init /\ [][NextRace]_vars

\* C5: in every reachable state of the save table, overlapping saveGameSlot
\* calls of one user on one slot included, there is at most one row per
\* (userId, slotNumber).
C5_OneRowPerSlot ==
    \A r \in Rows(gameSaves) :
        /\ gameSaves[r] = 1
        /\ \A q \in Rows(gameSaves) :
               (q.userId = r.userId /\ q.slotNumber = r.slotNumber) => q = r

(***************************************************************************)
(* SpecStory: startGame and makeChoice, called one after the other.  They  *)
(* read and write no table.                                                *)
(***************************************************************************)
\* z.string().min(1) accepts any theme that is not empty
StartGameInputs ==
    {[theme |-> th, spriteDescription |-> sd] :
        th \in Themes \cup {"Game Over"}, sd \in SpriteDescriptions}

\* the ids a client may submit and the choice lists it may hold
MakeChoiceInputs ==
    {[choiceId |-> id, currentStory |-> "S1", currentChoices |-> cc,
      gameTheme |-> th, spriteDescription |-> sd] :
        id \in {1, 99}, cc \in {GoChoices, OverChoices},
        th \in Themes, sd \in SpriteDescriptions}

StartGame(session, input, hasKey, gen, img, choiceNum) ==
    /\ response' = startGame(session, input, hasKey, gen, img, choiceNum)
    /\ UNCHANGED <<gameSaves, highScore, calls>>

MakeChoice(session, input, isBlunder, hasKey, gen, img) ==
    /\ response' = makeChoice(session, input, isBlunder, hasKey, gen, img)
    /\ UNCHANGED <<gameSaves, highScore, calls>>

NextStory ==
    \/ \E session \in Sessions, input \in StartGameInputs, hasKey \in BOOLEAN,
          gen \in GenOutcomes, img \in ImageOutcomes, choiceNum \in 1..3 :  \* Math.floor(Math.random() * 3) + 1
           StartGame(session, input, hasKey, gen, img, choiceNum) /\ UNCHANGED <<pageVars, verificationTokens>>
    \/ \E session \in Sessions, input \in MakeChoiceInputs, isBlunder \in BOOLEAN,
          hasKey \in BOOLEAN, gen \in GenOutcomes, img \in ImageOutcomes :
           MakeChoice(session, input, isBlunder, hasKey, gen, img) /\ UNCHANGED <<pageVars, verificationTokens>>

SpecStory == Init /\ [][NextStory]_vars

\* C3: a makeChoice call whose choiceId matches no id of the submitted
\* currentChoices is rejected with an 'invalid choice' condition: the caller
\* gets no story payload and no game-over result, and no row changes.
C3_InvalidChoiceRejected ==
    (/\ response.op = "makeChoice"
     /\ \A i \in 1..Len(response.input.currentChoices) :
            GetProp(response.input.currentChoices[i], "id").n # response.input.choiceId)
    => /\ response.outcome = "rejected"
       /\ ~response.gameOver
       /\ response.state.story = JUndef

\* the choices member of the generator's reply, undefined without a reply
ReplyChoices(r) ==
    IF r.textCalls = 1 /\ ~r.gen.threw /\ r.gen.content \notin {Null, "", Undefined}
       /\ JSONParse(r.gen.content).ok
    THEN GetProp(JSONParse(r.gen.content).v, "choices")
    ELSE JUndef

\* v is a list whose elements all have a text
IsTextList(v) ==
    v.t = "arr" /\ \A i \in 1..Len(v.a) : GetProp(v.a[i], "text").t = "str"

ContainsGameOver(text) ==
    \E i \in 1..Len(text) :
        i + 8 <= Len(text) /\ toLowerCase(SubSeq(text, i, i + 8)) = "game over"

EveryChoiceContainsGameOver(choices) ==
    \A i \in 1..Len(choices) :
        /\ GetProp(choices[i], "text").t = "str"
        /\ ContainsGameOver(GetProp(choices[i], "text").s)

\* as stated: terminal exactly when every element of the generator's list
\* contains 'game over'
C9_Original ==
    (response.op \in {"startGame", "makeChoice"} /\ IsTextList(ReplyChoices(response)))
    => (response.gameOver <=> EveryChoiceContainsGameOver(ReplyChoices(response).a))

\* C9: when startGame or makeChoice answers with the generator's reply, the
\* answer is terminal exactly when the reply's choices list is not empty and
\* every element contains 'game over' case-insensitively; the three choices
\* 'Game Over', 'GAME OVER', 'game over!' give a terminal answer.
C9_Terminal ==
    (response.op \in {"startGame", "makeChoice"} /\ response.fromReply)
    => /\ response.state.choices = ReplyChoices(response)
       /\ response.gameOver <=>
              (/\ ReplyChoices(response).t = "arr"
               /\ ReplyChoices(response).a # <<>>
               /\ EveryChoiceContainsGameOver(ReplyChoices(response).a))
       /\ ReplyChoices(response) = JArr(OverChoices) => response.gameOver

C9_Witness ==
    /\ response.op = "makeChoice"
    /\ response.fromReply
    /\ response.state.choices = JArr(OverChoices)
    /\ response.gameOver

\* the procedure came to ask the text generator for a story and the
\* generator gave nothing usable
GeneratorFailed(r) ==
    /\ r.op \in {"startGame", "makeChoice"}
    /\ r.op = "makeChoice" =>
           /\ \E i \in 1..Len(r.input.currentChoices) :
                  GetProp(r.input.currentChoices[i], "id").n = r.input.choiceId
           /\ ~r.isBlunder
    /\ \/ ~r.hasKey
       \/ r.gen.threw
       \/ r.gen.content \in {Null, ""}
       \/ ~JSONParse(r.gen.content).ok
       \/ ~IsStoryShape(JSONParse(r.gen.content).v)

\* C10: when the text generator fails during startGame or makeChoice (it
\* throws, gives no content or a malformed reply, or no API key is set), the
\* procedure answers a mock payload with a story string, a non-empty choice
\* list and a backgroundDescription, and the answer is no game over.
C10_FallbackNotGameOver ==
    GeneratorFailed(response)
    => /\ response.outcome = "returned"
       /\ response.state.story.t = "str"
       /\ IsChoiceArray(response.state.choices)
       /\ response.state.choices.a # <<>>
       /\ response.state.backgroundDescription.t = "str"
       /\ ~response.gameOver
(***************************************************************************)
(* SpecClient: one page, played by one player, and the server behind it    *)
(***************************************************************************)
InitClient ==
    /\ InitServer
    /\ \E status \in {"authenticated", "unauthenticated"} : InitPage(status)

NextClient ==
    \/ SaveSlotsLoaded
    \/ \E n \in SlotNumbers : handleNewGame(n)
    \/ \E n \in SlotNumbers : handleLoadGame(n)
    \/ GameSlotLoaded
    \/ \E description \in SpriteDescriptions : setSpriteDescription(description)
    \/ \E theme \in Themes : setGameTheme(theme)
    \/ handleSpriteSubmit
    \/ handleThemeSubmit
    \/ \E req \in requests, img \in ImageUrls : GenerateSpriteSettles(req, img)
    \/ \E req \in requests, gen \in ClientGens, img \in ImageUrls :
           StartGameSettles(req, gen, img, 1)
    \/ ReachRightSide
    \/ \E key \in {1, 3} : handleKeyDown(key)  \* the number keys the player presses
    \/ \E req \in requests, isBlunder \in BOOLEAN, gen \in ClientGens, img \in ImageUrls :
           MakeChoiceSettles(req, isBlunder, gen, img)
    \/ \E timer \in timers : TimerFires(timer)
    \/ handleReturnToSlots
    \/ SaveButton
    \/ \E req \in requests : SaveGameSlotSettles(req)
    \/ \E req \in requests : SaveGameSlotFails(req)

SpecClient == InitClient /\ [][NextClient]_vars

\* the row of the slot the last settled save wrote
SettledRows == SlotRows(gameSaves, ClientUser, settled.slotNumber)

RowHoldsGameState(r, state, url) ==
    /\ r.gamePhase = "playing"
    /\ r.currentStory = state.story.s
    /\ ParsedChoices(r.currentChoices) = state.choices
    /\ r.currentBackgroundDescription = state.backgroundDescription.s
    /\ r.currentBackgroundImageUrl = url

\* C6: when the save issued by the success handler of generateSprite,
\* startGame or makeChoice completes, the slot's row holds the state after
\* the transition: phase theme and the returned sprite url after
\* generateSprite, phase playing and the returned story, choices and
\* background after startGame and makeChoice.
C6_SavedAfterTransition ==
    (settled.kind = "saveGameSlot" /\ settled.cause.kind # "none") =>
        \E r \in SettledRows :
            /\ settled.cause.kind = "generateSprite" =>
                   r.gamePhase = "theme" /\ r.spriteUrl = settled.cause.imageUrl
            /\ settled.cause.kind \in {"startGame", "makeChoice"} =>
                   RowHoldsGameState(r, settled.cause.gameState,
                                     settled.cause.backgroundImageUrl)

\* nothing of the page is in flight
Quiescent == requests = {} /\ timers = {} /\ slotToLoad = 0

\* C7: when a makeChoice step is terminal for a signed-in player of slot n,
\* the row of (user, n) is deleted: once the step is processed no row is
\* left for the slot (loadGameSlot(n) answers 'empty').
C7_TerminalDeletesSave ==
    (/\ terminalStep = "makeChoice"
     /\ sessionStatus = "authenticated"
     /\ gamePhase = "playing"
     /\ currentSlot # 0
     /\ Quiescent)
    => SlotRows(gameSaves, ClientUser, currentSlot) = {}

C8_Step ==
    (terminalStep # "none" /\ terminalStep' # "none") =>
        {req \in requests' : req.kind = "makeChoice"} \subseteq requests

\* C8: once a step has returned a terminal result the playthrough does not
\* resume: the page sends no further makeChoice request until a new game is
\* started or a slot is loaded.
C8_NoResumeAfterTerminal == [][C8_Step]_vars

(***************************************************************************)
(* The payloads of startGame and makeChoice                                *)
(***************************************************************************)
\* C11: every payload startGame and makeChoice return has a string story, a
\* string backgroundDescription and a choices list whose elements all have
\* a numeric id and a string text: a reply of another shape is never passed
\* on.
C11_PayloadWellFormed ==
    (response.op \in {"startGame", "makeChoice"}) =>
        /\ response.state.story.t = "str"
        /\ response.state.backgroundDescription.t = "str"
        /\ IsChoiceArray(response.state.choices)

(***************************************************************************)
(* SpecChoices: the stored choices.  Slot 2 of u1 holds a row written by   *)
(* another version of the router, with any text in currentChoices; u1      *)
(* saves slot 1 with the choice lists a client may send, and the three     *)
(* reading procedures are called in between.                               *)
(***************************************************************************)
\* texts that are not JSON for an array of {id: number, text: string}
MalformedTexts ==
    {"not json", "[", "{\"a\":1}", "[1]", "null", "[{\"id\":1}]",
     "[{\"id\":\"1\",\"text\":\"x\"}]", "[{\"id\":1,\"text\":\"x\"},2]"}

\* the choice lists a client may save (z.array(z.object({id, text})))
ChoicesInputs ==
    LET ChoiceLists ==
            {<<>>, <<Choice(1, "Go north")>>, GoChoices, OverChoices,
             <<Choice(-1, "say \"hi\""), Choice(0, "a\\b")>>,
             <<Choice(10, ""), Choice(10, "two\nlines")>>,
             <<Choice(4, "[1, 2]"), Choice(3, "{\"id\":1}"), Choice(2, " "), Choice(1, "null")>>}
    IN  {[PlayingInput(1, JNum(0)) EXCEPT !.currentChoices = c] :
            c \in {JUndef} \cup {JArr(l) : l \in ChoiceLists}}

InitStored ==
    \* what the column may hold: a malformed text, nothing, or a stored list
    /\ \E text \in MalformedTexts \cup {Null, "", " ", "[{\"id\":1,\"text\":\"Go north\"}]"} :
           gameSaves = SetToBag({[LegacyRow("u1", 2) EXCEPT !.currentChoices = text],
                                 LegacyRow("u2", 1)})
    /\ highScore \in [Users -> {JNull}]
    /\ response = NoResponse
    /\ calls = [c \in CallIds |-> IdleCall]
    /\ verificationTokens = EmptyBag
    /\ InitPage("authenticated")

NextChoices ==
    \/ \E session \in Sessions, input \in ChoicesInputs :
           SaveGameSlot(session, input) /\ UNCHANGED <<pageVars, verificationTokens>>
    \/ \E session \in Sessions, n \in SlotNumbers :
           LoadGameSlot(session, n) /\ UNCHANGED <<pageVars, verificationTokens>>
    \/ \E session \in Sessions : LoadGame(session) /\ UNCHANGED <<pageVars, verificationTokens>>
    \/ \E session \in Sessions : GetSaveSlots(session) /\ UNCHANGED <<pageVars, verificationTokens>>

SpecChoices == InitStored /\ [][NextChoices]_vars

\* the choices a saveGameSlot input carries: none is the empty list
SavedChoices(input) == IF input.currentChoices.t = "arr" THEN input.currentChoices.a ELSE <<>>

C12_Step ==
    (/\ response.op = "saveGameSlot" /\ response.success
     /\ response'.op = "loadGameSlot"
     /\ response'.session = response.session
     /\ response'.slotNumber = response.input.slotNumber)
    => /\ response'.status = "loaded"
       /\ response'.saveData.currentChoices = SavedChoices(response.input)

\* C12: a successful saveGameSlot followed directly by loadGameSlot of the
\* same user and slot answers 'loaded' with currentChoices equal, element
\* by element and in order, to the choices saved; a save without choices
\* loads as the empty list.
C12_RoundTrip == [][C12_Step]_vars

\* a list whose texts hold quotes and backslashes was saved and loaded back
C12_Witness ==
    /\ response.op = "loadGameSlot"
    /\ response.status = "loaded"
    /\ response.slotNumber = 1
    /\ response.saveData.currentChoices = <<Choice(-1, "say \"hi\""), Choice(0, "a\\b")>>

\* the answer's saveData shows row r, with the choices read as the empty
\* list when the stored text is malformed
LoadShows(saveData, r) ==
    /\ DOMAIN saveData = DOMAIN r
    /\ \A f \in DOMAIN r \ {"currentChoices"} : saveData[f] = r[f]
    /\ r.currentChoices \in MalformedTexts => saveData.currentChoices = <<>>

\* C13: a row whose stored currentChoices is not valid JSON, or is JSON
\* that is not an array of {id: number, text: string}, is returned by
\* getSaveSlots, loadGameSlot and loadGame with currentChoices = [] and
\* its other fields as stored; the call answers, it does not fail.
C13_MalformedChoicesTolerated ==
    /\ (response.op = "loadGameSlot" /\ response.session # NoSession) =>
           LET rows == SlotRows(gameSaves, response.session, response.slotNumber)
           IN /\ rows # {} => response.status = "loaded"
              /\ response.status = "loaded" =>
                     \E r \in rows : LoadShows(response.saveData, r)
    /\ (response.op = "loadGame" /\ response.session # NoSession) =>
           LET rows == UserRows(gameSaves, response.session)
           IN /\ rows # {} => response.status = "loaded"
              /\ response.status = "loaded" =>
                     \E r \in rows : LoadShows(response.saveData, r)
    /\ (response.op = "getSaveSlots" /\ response.session # NoSession) =>
           /\ response.status = "success"
           /\ \A n \in SlotNumbers :
                  LET rows == SlotRows(gameSaves, response.session, n)
                  IN rows # {} =>
                         \E r \in rows :
                             /\ ShowsRow(response.saveSlots[n], r)
                             /\ r.currentChoices \in MalformedTexts =>
                                    response.saveSlots[n].currentChoices = <<>>

\* a row holding the text [1] was loaded
C13_Witness ==
    /\ response.op = "loadGameSlot"
    /\ response.status = "loaded"
    /\ response.slotNumber = 2
    /\ \E r \in SlotRows(gameSaves, "u1", 2) : r.currentChoices = "[1]"
    /\ response.saveData.currentChoices = <<>>

(***************************************************************************)
(* SpecSlotRange: the slot procedures called with any slot number          *)
(***************************************************************************)
\* slot numbers a caller may send: z.number() in saveGameSlot and
\* deleteGameSave takes any of them
SlotRange == {0, 1, 3, 4}

NextSlotRange ==
    \/ \E session \in Sessions, n \in SlotRange :
           SaveGameSlot(session, NewGameInput(n)) /\ UNCHANGED <<pageVars, verificationTokens>>
    \/ \E session \in Sessions, n \in SlotRange :
           LoadGameSlot(session, n) /\ UNCHANGED <<pageVars, verificationTokens>>
    \/ \E session \in Sessions, n \in SlotRange :
           DeleteGameSave(session, n) /\ UNCHANGED <<pageVars, verificationTokens>>

SpecSlotRange == Init /\ [][NextSlotRange]_vars

\* the slot number a slot procedure was called with
CalledSlot(r) == IF r.op = "saveGameSlot" THEN r.input.slotNumber ELSE r.slotNumber

\* the call was refused with an error
Rejected(r) == "status" \in DOMAIN r /\ r.status = "rejected"

C14_Step ==
    (/\ response'.op \in {"saveGameSlot", "loadGameSlot", "deleteGameSave"}
     /\ response'.session # NoSession
     /\ CalledSlot(response') \notin {1, 2, 3})
    => (Rejected(response') /\ gameSaves' = gameSaves)

\* C14: a signed-in user's saveGameSlot, loadGameSlot or deleteGameSave call
\* with a slot number outside {1, 2, 3} is rejected, and no row is created,
\* changed or deleted by it.
C14_SlotRangeEnforced == [][C14_Step]_vars

(***************************************************************************)
(* The isEmpty flag of getSaveSlots (checked under Spec)                   *)
(***************************************************************************)
\* the column holds no value
Lacks(x) == x \in {Null, ""}

\* C15 as stated: slot n is reported empty exactly when (user, n) has no
\* row, or its row lacks both gamePhase and spriteUrl.
C15_Original ==
    (response.op = "getSaveSlots" /\ response.status = "success") =>
        \A n \in SlotNumbers :
            LET rows == SlotRows(gameSaves, response.session, n)
            IN response.saveSlots[n].isEmpty
               <=> (rows = {} \/ \E r \in rows : Lacks(r.gamePhase) /\ Lacks(r.spriteUrl))

\* C15: slot n is reported empty exactly when (user, n) has no row, or its
\* row lacks gamePhase or lacks spriteUrl (one of the two is enough).
C15_IsEmpty ==
    (response.op = "getSaveSlots" /\ response.status = "success") =>
        \A n \in SlotNumbers :
            LET rows == SlotRows(gameSaves, response.session, n)
            IN response.saveSlots[n].isEmpty
               <=> (rows = {} \/ \E r \in rows : Lacks(r.gamePhase) \/ Lacks(r.spriteUrl))

\* a listing with a new game (no sprite yet) in slot 1, reported empty, and
\* a game with a sprite in slot 3, reported not empty
C15_Witness ==
    /\ response.op = "getSaveSlots"
    /\ response.status = "success"
    /\ \E r \in SlotRows(gameSaves, "u1", 1) : r.gamePhase = "sprite" /\ r.spriteUrl = Null
    /\ response.saveSlots[1].isEmpty
    /\ \E r \in SlotRows(gameSaves, "u1", 3) : r.spriteUrl = "https://img/1"
    /\ ~response.saveSlots[3].isEmpty

(***************************************************************************)
(* SpecClientLive: the page, where the getSaveSlots query, once it is      *)
(* enabled, answers and its effect runs                                    *)
(***************************************************************************)
SpecClientLive == SpecClient /\ WF_vars(SaveSlotsLoaded)

\* C16: a page opened without a session leaves phase 'loading': it comes to
\* the slot list with three empty slots.
C16_UnauthenticatedReachesSlots ==
    (sessionStatus = "unauthenticated")
        ~> (gamePhase = "slots" /\ Len(saveSlots) = 3
            /\ \A n \in 1..3 : saveSlots[n].isEmpty)

(***************************************************************************)
(* The score across a playthrough (checked under SpecClient)               *)
(***************************************************************************)
\* a step inside one playthrough: the page stays in the phases of a game
\* in the same slot, and the step is not a new game
PlaythroughStep ==
    /\ gamePhase \in {"sprite", "theme", "playing"}
    /\ gamePhase' \in {"sprite", "theme", "playing"}
    /\ currentSlot' = currentSlot
    /\ ~(gamePhase = "playing" /\ gamePhase' = "sprite")

C17_Step ==
    PlaythroughStep =>
        /\ gameScore' >= gameScore
        /\ PriorScore(gameSaves', ClientUser, currentSlot)
               >= PriorScore(gameSaves, ClientUser, currentSlot)

\* C17: inside a playthrough in one slot neither the page's gameScore nor
\* the slot's stored score decreases.
C17_ScoreNeverDecreases == [][C17_Step]_vars

(***************************************************************************)
(* updateHighScore (checked under SpecWrites)                              *)
(***************************************************************************)
\* the high score a user holds: a null value counts as 0
HighOf(hs, u) == IF hs[u] = JNull THEN 0 ELSE hs[u].n

C18_Step ==
    (response'.op = "updateHighScore" /\ response'.session # NoSession) =>
        LET u == response'.session
            H == HighOf(highScore, u)
            score == response'.score
        IN /\ HighOf(highScore', u) = (IF score > H THEN score ELSE H)
           /\ response'.success <=> score > H
           /\ score <= H => highScore' = highScore
           /\ \A v \in Users \ {u} : highScore'[v] = highScore[v]

\* C18: updateHighScore(score) by a signed-in user whose stored high score
\* is H (null counting as 0) leaves max(H, score) stored: it writes and
\* answers success exactly when score > H, and otherwise leaves the value
\* as it is and answers success false.
C18_HighScoreIsMax == [][C18_Step]_vars

\* a lower score sent after a higher one was refused
C18_Witness ==
    /\ response.op = "updateHighScore"
    /\ response.session = "u1"
    /\ response.score = 1
    /\ ~response.success
    /\ highScore["u1"] = JNum(2)

(***************************************************************************)
(* A new game in an occupied slot (checked under Spec)                     *)
(***************************************************************************)
\* how many rows the table holds for (u, n)
RowCount(table, u, n) ==
    LET rows == SlotRows(table, u, n)
        RECURSIVE Sum(_)
        Sum(S) == IF S = {} THEN 0
                  ELSE LET r == CHOOSE x \in S : TRUE
                       IN CopiesIn(r, table) + Sum(S \ {r})
    IN Sum(rows)

\* the row a new game leaves: phase sprite, score 0, nothing else
IsNewGameRow(r) ==
    /\ r.gamePhase = "sprite"
    /\ r.score = JNum(0)
    /\ r.spriteDescription = Null
    /\ r.spriteUrl = Null
    /\ r.gameTheme = Null
    /\ r.currentStory = Null
    /\ r.currentBackgroundDescription = Null
    /\ r.currentBackgroundImageUrl = Null
    /\ ParsedChoices(r.currentChoices) = <<>>
    /\ r.currentChoices = "[]"

C19_Step ==
    (/\ response'.op = "saveGameSlot" /\ response'.success
     /\ \E n \in SlotNumbers : response'.input = NewGameInput(n)
     /\ SlotRows(gameSaves, response'.session, response'.input.slotNumber) # {})
    => /\ RowCount(gameSaves', response'.session, response'.input.slotNumber) = 1
       /\ \A r \in SlotRows(gameSaves', response'.session, response'.input.slotNumber) :
              IsNewGameRow(r)

\* C19: the save of handleNewGame on a slot that holds a row overwrites it
\* in place: afterwards the slot holds exactly one row, in phase sprite,
\* with score 0, null sprite, theme, story and background fields and the
\* empty list of choices.
C19_NewGameOverwrites == [][C19_Step]_vars

\* a new game was saved over the row slot 2 held
C19_Witness ==
    /\ response.op = "saveGameSlot"
    /\ response.success
    /\ response.input = NewGameInput(2)
    /\ RowCount(gameSaves, "u1", 2) = 1
    /\ \A r \in SlotRows(gameSaves, "u1", 2) : IsNewGameRow(r) /\ r.updatedAt = 0

(***************************************************************************)
(* The rows a write touches (checked under SpecWrites)                     *)
(***************************************************************************)
\* the slot a write procedure addresses: the legacy saveGame targets slot 1
AddressedSlot(r) ==
    CASE r.op = "saveGameSlot" -> r.input.slotNumber
      [] r.op = "deleteGameSave" -> r.slotNumber
      [] OTHER -> 1

C20_Step ==
    (response'.op \in {"saveGameSlot", "deleteGameSave", "saveGame"}
     /\ response'.session # NoSession)
    => \A r \in Rows(gameSaves) \cup Rows(gameSaves') :
           (r.userId # response'.session \/ r.slotNumber # AddressedSlot(response'))
               => CopiesIn(r, gameSaves') = CopiesIn(r, gameSaves)

\* C20: saveGameSlot(u, n) and deleteGameSave(u, n) change no row but those
\* of (u, n), and the legacy saveGame changes no row but u's slot-1 row.
C20_WritesScopedToSlot == [][C20_Step]_vars

(***************************************************************************)
(* Fields that are never cleared (checked under SpecClient)                *)
(***************************************************************************)
C21_Step ==
    \A r \in Rows(gameSaves), w \in Rows(gameSaves') :
        (/\ r.userId = w.userId /\ r.slotNumber = w.slotNumber
         /\ \E f \in {"spriteDescription", "spriteUrl", "gameTheme"} :
                r[f] # Null /\ w[f] = Null)
        => \E req \in requests \ requests' :
               req.kind = "saveGameSlot" /\ req.input = NewGameInput(r.slotNumber)

\* C21: across the saveGameSlot calls the page makes on a slot, a stored
\* spriteDescription, spriteUrl or gameTheme that is not null stays not null,
\* unless the save is the one handleNewGame sends for that slot.
C21_FieldsNeverCleared == [][C21_Step]_vars

(***************************************************************************)
(* A failed save (checked under SpecClient)                                *)
(***************************************************************************)
\* the row of (user, slot) holds what the save sent
RowHoldsInput(r, input) ==
    /\ r.gamePhase = input.gamePhase
    /\ r.spriteDescription = OrNull(input.spriteDescription)
    /\ r.spriteUrl = OrNull(input.spriteUrl)
    /\ r.gameTheme = OrNull(input.gameTheme)
    /\ r.currentStory = OrNull(input.currentStory)
    /\ r.currentChoices = ChoicesString(input.currentChoices)
    /\ r.currentBackgroundImageUrl = OrNull(input.currentBackgroundImageUrl)

C22_Step ==
    \A req \in requests \ requests' :
        req.kind = "saveGameSlot" =>
            \* the call is made once
            /\ ~(\E other \in requests' \ requests : other.kind = "saveGameSlot")
            /\ \/ \* success is answered and the write happened
                   /\ settled'.kind = "saveGameSlot"
                   /\ \E r \in SlotRows(gameSaves', ClientUser, req.input.slotNumber) :
                          RowHoldsInput(r, req.input) /\ r.score = JNum(gameScore')
                \/ \* the call failed: nothing is written, the page alerts and
                   \* shows the error view
                   /\ gameSaves' = gameSaves
                   /\ settled'.kind = "saveGameSlotError"
                   /\ settled'.alert # ""
                   /\ mutationError'

\* C22: a saveGameSlot call whose database read or write fails fails towards
\* the caller: success is answered only when the row was written, the call is
\* not made again, and the page alerts and shows the error view.
C22_FailedSaveSurfaces == [][C22_Step]_vars

\* a save has failed and the error view is shown
C22_Witness == mutationError /\ settled.alert # "" /\ requests = {}

(***************************************************************************)
(* Loading twice (checked under SpecRace)                                  *)
(***************************************************************************)
C23_Step ==
    /\ (response'.op = "loadGameSlot" /\ calls' = calls) => gameSaves' = gameSaves
    /\ (/\ response.op = "loadGameSlot" /\ response'.op = "loadGameSlot"
        /\ response'.session = response.session
        /\ response'.slotNumber = response.slotNumber)
       => response' = response

\* C23: two loadGameSlot(n) calls of one user with no write to the slot
\* between them answer the same payload, and loadGameSlot changes no row.
C23_LoadIdempotent == [][C23_Step]_vars

(***************************************************************************)
(* The random blunder (checked under SpecStory)                            *)
(***************************************************************************)
\* C24: when the blunder fires in makeChoice for a valid choiceId, the answer
\* is terminal (gameOver, the three choices 1, 2, 3 reading 'Game Over', an
\* empty backgroundImageUrl) and neither generator was called; when it does
\* not fire, the text generator is called exactly once.
C24_Blunder ==
    (response.op = "makeChoice" /\ SelectedChoiceFound(response.input)) =>
        IF response.isBlunder
        THEN /\ response.gameOver
             /\ response.state.choices = JArr(GameOverChoices)
             /\ response.backgroundImageUrl = ""
             /\ response.textCalls = 0 /\ response.imageCalls = 0
        ELSE response.textCalls = 1

\* a blunder has fired on a valid choice
C24_Witness ==
    /\ response.op = "makeChoice" /\ SelectedChoiceFound(response.input)
    /\ response.isBlunder /\ response.gameOver /\ response.textCalls = 0

(***************************************************************************)
(* The gameOver flag and the returned choices (checked under SpecStory)    *)
(***************************************************************************)
\* C25: in every answer of startGame and makeChoice, on the generator's
\* reply, on a blunder and on the error paths alike, gameOver is set exactly
\* when the returned choices list is not empty and every choice text contains
\* 'game over' case-insensitively.
C25_FlagMatchesChoices ==
    response.op \in {"startGame", "makeChoice"} =>
        (response.gameOver <=>
             /\ response.state.choices.t = "arr"
             /\ response.state.choices.a # <<>>
             /\ EveryChoiceContainsGameOver(response.state.choices.a))

(***************************************************************************)
(* SpecHighScore: updateHighScore calls that overlap. A call reads the     *)
(* stored value, and later compares and writes                             *)
(***************************************************************************)
\* lines 45-63: the session check and the SELECT of users.highScore
UpdateHighScoreSelect(c, session, score) ==
    /\ calls[c].pc = "idle"
    /\ IF session = NoSession
       THEN /\ response' = [op |-> "updateHighScore", session |-> session, score |-> score,
                            success |-> FALSE, message |-> "User not authenticated"]
            /\ UNCHANGED calls
       ELSE /\ calls' = [calls EXCEPT ![c] =
                            [pc |-> "read", session |-> session, score |-> score,
                             currentHighScore |-> ScoreOrZero(highScore[session])]]
            /\ UNCHANGED response
    /\ UNCHANGED <<gameSaves, highScore>>

\* lines 65-85: the comparison with the value read, the UPDATE, the answer
UpdateHighScoreWrite(c) ==
    /\ calls[c].pc = "read"
    /\ IF ScoreIsHigher(calls[c].score, calls[c].currentHighScore)
       THEN /\ highScore' = [highScore EXCEPT ![calls[c].session] = JNum(calls[c].score)]
            /\ response' = [op |-> "updateHighScore", session |-> calls[c].session,
                            score |-> calls[c].score, success |-> TRUE,
                            message |-> "High score updated"]
       ELSE /\ UNCHANGED highScore
            /\ response' = [op |-> "updateHighScore", session |-> calls[c].session,
                            score |-> calls[c].score, success |-> FALSE,
                            message |-> "Score not high enough to update high score"]
    /\ calls' = [calls EXCEPT ![c] = IdleCall]
    /\ UNCHANGED gameSaves

NextHighScore ==
    \/ \E c \in CallIds, session \in Users \cup {NoSession}, score \in 0..MaxScore :
           UpdateHighScoreSelect(c, session, score) /\ UNCHANGED <<pageVars, verificationTokens>>
    \/ \E c \in CallIds : UpdateHighScoreWrite(c) /\ UNCHANGED <<pageVars, verificationTokens>>

SpecHighScore == Init /\ [][NextHighScore]_vars

C26_Step == \A u \in Users : HighOf(highScore', u) >= HighOf(highScore, u)

\* C26: under any interleaving of overlapping updateHighScore calls of a
\* user the stored highScore never decreases (and so ends as the maximum of
\* the initial value and the submitted scores).
C26_HighScoreNeverDecreases == [][C26_Step]_vars

(***************************************************************************)
(* One choice per scene (checked under SpecClient)                         *)
(***************************************************************************)
C27_Step ==
    (\E req \in requests' \ requests : req.kind = "makeChoice")
    => /\ ~(\E req \in requests : req.kind = "makeChoice")
       /\ timers = {}
       /\ ~transitioningToNextScene

\* C27: the page submits at most one choice for a displayed scene: no
\* makeChoice request is sent while one is pending, nor during the 500 ms
\* transition between a successful answer and the scene change.
C27_OneChoicePerScene == [][C27_Step]_vars

(***************************************************************************)
(* SpecEnsure: ensureThreeChoices applied to the lists the page may get    *)
(***************************************************************************)
\* the longest list given to ensureThreeChoices
MaxChoices == 4

EnsureThreeChoices(choices) ==
    /\ response' = [op |-> "ensureThreeChoices", input |-> choices,
                    result |-> ensureThreeChoices(choices)]
    /\ UNCHANGED <<gameSaves, highScore, calls, pageVars, verificationTokens>>

\* Choice[]: lists of up to MaxChoices choices, ids repeated or not
NextEnsure ==
    \E choices \in UNION {[1..n -> {Choice(id, "Go") : id \in {1, 2, 3, 5}}] : n \in 0..MaxChoices} :
        EnsureThreeChoices(choices)

SpecEnsure == Init /\ [][NextEnsure]_vars

\* the ids of a list are pairwise distinct
DistinctIds(choices) ==
    \A i, j \in 1..Len(choices) :
        i # j => GetProp(choices[i], "id") # GetProp(choices[j], "id")

\* C28: ensureThreeChoices returns exactly three choices: the first three
\* inputs when there are three or more, otherwise the inputs in order
\* followed by default choices; pairwise distinct input ids give pairwise
\* distinct output ids.
C28_ThreeChoices ==
    response.op = "ensureThreeChoices" =>
        LET input == response.input
            result == response.result
        IN /\ Len(result) = 3
           /\ Len(input) >= 3 => result = SubSeq(input, 1, 3)
           /\ Len(input) < 3 =>
                  /\ SubSeq(result, 1, Len(input)) = input
                  /\ \A i \in (Len(input) + 1)..3 :
                         result[i] \in {Choice(1, "Continue forward"),
                                        Choice(2, "Explore the area"),
                                        Choice(3, "Turn back")}
           /\ DistinctIds(input) => DistinctIds(result)

\* a list of two choices with ids 1 and 3 was completed
C28_Witness ==
    /\ response.op = "ensureThreeChoices"
    /\ response.input = <<Choice(1, "Go"), Choice(3, "Go")>>
    /\ Len(response.result) = 3

(***************************************************************************)
(* The displayed choices and the keys (checked under SpecClient)           *)
(***************************************************************************)
\* C29: in phase playing with the choice cloud shown, each of the three
\* displayed choices has an id that one of the keys 1, 2, 3 matches.
C29_ChoicesSelectable ==
    (gamePhase = "playing" /\ showChoiceCloud /\ gameState # NoGameState)
    => \A i \in 1..3 :
           i <= Len(gameState.choices)
           /\ \E key \in {1, 2, 3} : GetProp(gameState.choices[i], "id") = JNum(key)

(***************************************************************************)
(* SpecTokens: the verification tokens of the auth adapter. The table has  *)
(* no key; useVerificationToken reads the row, and later deletes it        *)
(***************************************************************************)
\* createVerificationToken: expires is a Date (milliseconds), stored in
\* seconds and returned as a Date again (lines 201-223, 500-529)
CreateVerificationToken(identifier, token, expires) ==
    /\ BagCardinality(verificationTokens) < MaxTokens
    /\ LET row == [identifier |-> identifier, token |-> token,
                   expires |-> expires \div 1000]
       IN /\ verificationTokens' = verificationTokens (+) SetToBag({row})
          /\ \E found \in {r \in Rows(verificationTokens') :
                              r.identifier = identifier /\ r.token = token} :
                 response' = [op |-> "createVerificationToken",
                              result |-> [found EXCEPT !.expires = @ * 1000]]
    /\ UNCHANGED <<gameSaves, highScore, calls, pageVars>>

\* useVerificationToken, up to the answer of the SELECT (lines 225-232, 531-545)
UseVerificationTokenSelect(c, identifier, token) ==
    /\ calls[c].pc = "idle"
    /\ LET matching == {r \in Rows(verificationTokens) :
                            r.identifier = identifier /\ r.token = token}
       IN IF matching = {}
          THEN /\ response' = [op |-> "useVerificationToken", identifier |-> identifier,
                               token |-> token, result |-> Null]
               /\ UNCHANGED calls
          ELSE /\ \E foundToken \in matching :
                      calls' = [calls EXCEPT ![c] =
                                   [pc |-> "found", identifier |-> identifier,
                                    token |-> token, foundToken |-> foundToken]]
               /\ UNCHANGED response
    /\ UNCHANGED <<gameSaves, highScore, verificationTokens, pageVars>>

\* useVerificationToken: the DELETE and the answer (lines 234-247, 547-560)
UseVerificationTokenDelete(c) ==
    /\ calls[c].pc = "found"
    /\ verificationTokens' =
           [r \in {x \in DOMAIN verificationTokens :
                       ~(x.identifier = calls[c].identifier /\ x.token = calls[c].token)}
              |-> verificationTokens[r]]
    /\ response' = [op |-> "useVerificationToken", identifier |-> calls[c].identifier,
                    token |-> calls[c].token,
                    result |-> [calls[c].foundToken EXCEPT !.expires = @ * 1000]]
    /\ calls' = [calls EXCEPT ![c] = IdleCall]
    /\ UNCHANGED <<gameSaves, highScore, pageVars>>

NextTokens ==
    \/ \E token \in {"t1", "t2"}, expires \in {1000, 2500} :
           CreateVerificationToken("a@x", token, expires)
    \/ \E c \in CallIds, token \in {"t1", "t2"} : UseVerificationTokenSelect(c, "a@x", token)
    \/ \E c \in CallIds : UseVerificationTokenDelete(c)

SpecTokens == Init /\ [][NextTokens]_vars

C30_Step ==
    \A c \in CallIds :
        (calls[c].pc = "found" /\ calls'[c].pc = "idle")
        => \E r \in Rows(verificationTokens) :
               r.identifier = calls[c].identifier /\ r.token = calls[c].token

\* C30: a verification token is used once: a useVerificationToken call that
\* returns the token is the call that removes its row, so that of the calls
\* made for a token created once, in sequence or overlapping, at most one
\* returns it and the others return null.
C30_TokenSingleUse == [][C30_Step]_vars
====
